---- MODULE Spec2Model ----
(***************************************************************************)
(* Release cache, cache builder and XPI detail aggregation of the Zotero   *)
(* addons scraper (src/src/zotero_scraper).                                *)
(*                                                                         *)
(* Python strings that the program compares, splits or rewrites are        *)
(* sequences of one-character strings (<<"6", ".", "*">> is "6.*"), so      *)
(* that str.replace, str.split, int() and the string order are computed    *)
(* as Python computes them.  Python's None is the value None below, which  *)
(* is no such sequence of characters.                                      *)
(***************************************************************************)
EXTENDS Integers, Sequences, FiniteSets, TLC

VARIABLES
    upstream,   \* tags of the releases that exist on GitHub for Repo
    cache,      \* ReleaseCache._cache: loaded repo |-> RepoCache
    dirty,      \* ReleaseCache._dirty
    now,        \* the clock read by datetime.now(UTC)
    detail,     \* one XpiDetail
    last        \* the last operation: its name, arguments and return value

vars == <<upstream, cache, dirty, now, detail, last>>

(***************************************************************************)
(* Bounds of the model.  get_releases reads pages of per_page = 100        *)
(* releases and at most max_pages = 10 pages; PerPage and MaxPages are     *)
(* those two parameters scaled down to the three releases of the model.    *)
(***************************************************************************)
MaxClock == 2
PerPage == 1
MaxPages == 2

None == <<"None">>

Truthy(x) == x # None /\ x # <<>>

(***************************************************************************)
(* Characters and strings                                                  *)
(***************************************************************************)
Ord(c) ==
    CASE c = "*" -> 42
      [] c = "+" -> 43
      [] c = "-" -> 45
      [] c = "." -> 46
      [] c = "/" -> 47
      [] c = "0" -> 48
      [] c = "1" -> 49
      [] c = "2" -> 50
      [] c = "3" -> 51
      [] c = "4" -> 52
      [] c = "5" -> 53
      [] c = "6" -> 54
      [] c = "7" -> 55
      [] c = "8" -> 56
      [] c = "9" -> 57
      [] c = "@" -> 64
      [] c = "a" -> 97
      [] c = "b" -> 98
      [] c = "e" -> 101
      [] c = "h" -> 104
      [] c = "i" -> 105
      [] c = "l" -> 108
      [] c = "n" -> 110
      [] c = "p" -> 112
      [] c = "t" -> 116
      [] c = "x" -> 120
      [] c = "z" -> 122

IsDigit(c) == c \in {"0", "1", "2", "3", "4", "5", "6", "7", "8", "9"}

\* a < b on Python strings: by code point, a proper prefix first
RECURSIVE StrLess(_, _)
StrLess(a, b) ==
    IF b = <<>> THEN FALSE
    ELSE IF a = <<>> THEN TRUE
    ELSE IF Head(a) = Head(b) THEN StrLess(Tail(a), Tail(b))
    ELSE Ord(Head(a)) < Ord(Head(b))

\* s.replace(old, new) for a one-character old
RECURSIVE replace(_, _, _)
replace(s, old, new) ==
    IF s = <<>> THEN <<>>
    ELSE (IF Head(s) = old THEN new ELSE <<Head(s)>>) \o replace(Tail(s), old, new)

\* s.split(sep) for a one-character sep: "".split(".") is [""]
RECURSIVE split(_, _)
split(s, sep) ==
    IF s = <<>> THEN << <<>> >>
    ELSE LET rest == split(Tail(s), sep)
         IN  IF Head(s) = sep THEN << <<>> >> \o rest
             ELSE << <<Head(s)>> \o Head(rest) >> \o Tail(rest)

\* s.endswith(suffix)
endswith(s, suffix) ==
    /\ Len(s) >= Len(suffix)
    /\ SubSeq(s, Len(s) - Len(suffix) + 1, Len(s)) = suffix

\* int(p) succeeds: over the characters of the model, p is a non-empty run
\* of digits, after a "+" or not ("*", letters and the empty string raise
\* ValueError; a "-" never reaches int, compare_versions splits at it)
IsInt(p) ==
    /\ p # <<>>
    /\ IF Head(p) = "+"
       THEN Len(p) > 1 /\ \A i \in 2..Len(p) : IsDigit(p[i])
       ELSE \A i \in 1..Len(p) : IsDigit(p[i])

RECURSIVE IntOf(_)
IntOf(p) ==
    IF p = <<>> THEN 0
    ELSE IF Head(p) = "+" THEN IntOf(Tail(p))
    ELSE 10 * IntOf(SubSeq(p, 1, Len(p) - 1)) + (Ord(p[Len(p)]) - 48)

(***************************************************************************)
(* utils/version.py                                                        *)
(***************************************************************************)
Pad(parts, n) == parts \o [i \in 1..(n - Len(parts)) |-> <<"0">>]

\* the loop of compare_versions comparing every pair of parts as strings
RECURSIVE compare_parts_lexical(_, _)
compare_parts_lexical(parts1, parts2) ==
    IF parts1 = <<>> \/ parts2 = <<>> THEN 0
    ELSE IF Head(parts1) = <<"*">> \/ Head(parts2) = <<"*">>
    THEN compare_parts_lexical(Tail(parts1), Tail(parts2))
    ELSE IF StrLess(Head(parts1), Head(parts2)) THEN -1
    ELSE IF StrLess(Head(parts2), Head(parts1)) THEN 1
    ELSE compare_parts_lexical(Tail(parts1), Tail(parts2))

\* the loop of compare_versions with "<=" for "<" in the string comparison
RECURSIVE compare_parts_nonstrict(_, _)
compare_parts_nonstrict(parts1, parts2) ==
    IF parts1 = <<>> \/ parts2 = <<>> THEN 0
    ELSE LET p1 == Head(parts1)
             p2 == Head(parts2)
             rest == compare_parts_nonstrict(Tail(parts1), Tail(parts2))
         IN  IF p1 = <<"*">> \/ p2 = <<"*">> THEN rest
             ELSE IF IsInt(p1) /\ IsInt(p2)
                  THEN IF IntOf(p1) < IntOf(p2) THEN -1
                       ELSE IF IntOf(p1) > IntOf(p2) THEN 1
                       ELSE rest
                  ELSE IF StrLess(p1, p2) \/ p1 = p2 THEN -1
                       ELSE IF StrLess(p2, p1) THEN 1
                       ELSE rest

\* the loop over zip(parts1, parts2) and the final return 0
RECURSIVE compare_parts(_, _)
compare_parts(parts1, parts2) ==
    IF parts1 = <<>> \/ parts2 = <<>> THEN 0
    ELSE LET p1 == Head(parts1)
             p2 == Head(parts2)
             rest == compare_parts(Tail(parts1), Tail(parts2))
         IN  IF p1 = <<"*">> \/ p2 = <<"*">> THEN rest
             ELSE IF IsInt(p1) /\ IsInt(p2)
                  THEN IF IntOf(p1) < IntOf(p2) THEN -1
                       ELSE IF IntOf(p1) > IntOf(p2) THEN 1
                       ELSE rest
                  ELSE IF StrLess(p1, p2) THEN -1
                       ELSE IF StrLess(p2, p1) THEN 1
                       ELSE rest

compare_versions(version1, version2) ==
    LET parts1 == split(replace(version1, "-", <<".">>), ".")
        parts2 == split(replace(version2, "-", <<".">>), ".")
        max_len == IF Len(parts1) > Len(parts2) THEN Len(parts1) ELSE Len(parts2)
    IN  compare_parts(Pad(parts1, max_len), Pad(parts2, max_len))

version_in_range(version, min_version, max_version) ==
    /\ compare_versions(version, min_version) >= 0
    /\ compare_versions(version, max_version) <= 0

(***************************************************************************)
(* models/xpi.py: XpiDetail                                                *)
(***************************************************************************)
XpiDetail ==
    [id |-> None, name |-> None, version |-> None, description |-> None,
     update_url |-> None, min_version |-> <<"*">>, max_version |-> <<"*">>]

\* dict.get(key): None when the key is absent
Get(d, key) == IF key \in DOMAIN d THEN d[key] ELSE None

\* _update_version_range giving the bounds up when they are handed in again
_update_version_range_toggle(self, min_ver, max_ver) ==
    [self EXCEPT
        !.min_version = IF @ = min_ver THEN <<"*">> ELSE min_ver,
        !.max_version = IF @ = max_ver THEN <<"*">> ELSE max_ver]

_update_version_range(self, min_ver, max_ver) ==
    [self EXCEPT
        !.min_version =
            IF compare_versions(replace(min_ver, "*", <<"0">>),
                                replace(@, "*", <<"9", "9", "9">>)) <= 0
            THEN min_ver ELSE @,
        !.max_version =
            IF compare_versions(replace(max_ver, "*", <<"9", "9", "9">>),
                                replace(@, "*", <<"0">>)) >= 0
            THEN max_ver ELSE @]

\* the identity check of append_info: the incoming id differs from the one set
IdMismatch(self, details) ==
    /\ Truthy(Get(details, "id"))
    /\ Truthy(self.id)
    /\ self.id # Get(details, "id")

\* the value kept if there is one, else x: the first writer wins
Or_first(x, kept) == IF Truthy(kept) THEN kept ELSE x

\* x if it is truthy, else the value kept
Or(x, kept) == IF Truthy(x) THEN x ELSE kept

\* append_info once the identity check has passed: the scalar fields
MergeScalars(self, details) ==
    [id |-> Or(Get(details, "id"), self.id),
     name |-> Or(Get(details, "name"), self.name),
     version |-> Or(Get(details, "version"), self.version),
     description |-> Or(Get(details, "description"), self.description),
     update_url |-> Or(Or(Get(details, "updateURL"), Get(details, "update_url")),
                       self.update_url),
     min_version |-> self.min_version,
     max_version |-> self.max_version]

\* append_info once the identity check has passed
MergeInfo(self, details) ==
    IF Truthy(Get(details, "min_version")) /\ Truthy(Get(details, "max_version"))
    THEN _update_version_range(MergeScalars(self, details),
                               Get(details, "min_version"), Get(details, "max_version"))
    ELSE MergeScalars(self, details)

\* append_info without the return of the identity check
append_info_noreturn(self, details) == MergeInfo(self, details)

append_info(self, details) ==
    IF IdMismatch(self, details) THEN self ELSE MergeInfo(self, details)

\* check_compatible looking at the lower bound alone
check_compatible_min_only(self, version) ==
    compare_versions(replace(self.min_version, "*", <<"0">>),
                     replace(version, "*", <<"9", "9", "9">>)) <= 0

check_compatible(self, version) ==
    LET min_normalized == replace(self.min_version, "*", <<"0">>)
        max_normalized == replace(self.max_version, "*", <<"9", "9", "9">>)
        version_normalized == replace(version, "*", <<"9", "9", "9">>)
        version_base == replace(version, "*", <<"0">>)
    IN  /\ compare_versions(min_normalized, version_normalized) <= 0
        /\ compare_versions(max_normalized, version_base) >= 0

is_valid(self) == Truthy(self.id)

(***************************************************************************)
(* cache/release_cache.py: CachedRelease and RepoCache                     *)
(***************************************************************************)
\* CachedRelease(...) with the dataclass defaults for the fields not given
CachedRelease(tag, published_at, xpi_asset_id, xpi_name, xpi_download_url) ==
    [tag |-> tag, published_at |-> published_at, xpi_asset_id |-> xpi_asset_id,
     xpi_name |-> xpi_name, xpi_download_url |-> xpi_download_url,
     addon_id |-> None, addon_name |-> None, addon_version |-> None,
     addon_description |-> None, min_zotero_version |-> None,
     max_zotero_version |-> None, update_url |-> None,
     parse_success |-> TRUE, parse_error |-> None]

\* is_compatible_with without the parse_success test
is_compatible_with_anyparse(self, zotero_version) ==
    IF ~Truthy(self.min_zotero_version) THEN FALSE
    ELSE LET min_ver == replace(self.min_zotero_version, "*", <<"0">>)
             max_ver == replace(IF Truthy(self.max_zotero_version)
                                THEN self.max_zotero_version ELSE <<"9", "9", "9">>,
                                "*", <<"9", "9", "9">>)
             target == zotero_version \o <<".", "*">>
         IN  /\ compare_versions(target, min_ver) >= 0
             /\ compare_versions(target, max_ver) <= 0

is_compatible_with(self, zotero_version) ==
    IF ~self.parse_success \/ ~Truthy(self.min_zotero_version) THEN FALSE
    ELSE LET min_ver == replace(self.min_zotero_version, "*", <<"0">>)
             max_ver == replace(IF Truthy(self.max_zotero_version)
                                THEN self.max_zotero_version ELSE <<"9", "9", "9">>,
                                "*", <<"9", "9", "9">>)
             target == zotero_version \o <<".", "*">>
         IN  /\ compare_versions(target, min_ver) >= 0
             /\ compare_versions(target, max_ver) <= 0

\* RepoCache(): the dataclass defaults
RepoCache == [last_checked |-> <<>>, checked_releases |-> <<>>]

\* v is None; the int and the bool field hold an int and a bool
IsNone(k, v) == k \notin {"xpi_asset_id", "parse_success"} /\ v = None

\* bool(v) of the value of field k
FieldTruthy(k, v) ==
    IF k = "xpi_asset_id" THEN v # 0
    ELSE IF k = "parse_success" THEN v
    ELSE Truthy(v)

\* data.get(k, default)
GetOr(data, k, default) == IF k \in DOMAIN data THEN data[k] ELSE default

\* to_dict keeping the items whose value is truthy
CachedRelease_to_dict_truthy(self) ==
    [k \in {f \in DOMAIN self : FieldTruthy(f, self[f])} |-> self[k]]

\* {k: v for k, v in asdict(self).items() if v is not None}
CachedRelease_to_dict(self) ==
    [k \in {f \in DOMAIN self : ~IsNone(f, self[f])} |-> self[k]]

CachedRelease_from_dict(data) ==
    [tag |-> GetOr(data, "tag", <<>>),
     published_at |-> GetOr(data, "published_at", <<>>),
     xpi_asset_id |-> GetOr(data, "xpi_asset_id", 0),
     xpi_name |-> GetOr(data, "xpi_name", <<>>),
     xpi_download_url |-> GetOr(data, "xpi_download_url", <<>>),
     addon_id |-> Get(data, "addon_id"),
     addon_name |-> Get(data, "addon_name"),
     addon_version |-> Get(data, "addon_version"),
     addon_description |-> Get(data, "addon_description"),
     min_zotero_version |-> Get(data, "min_zotero_version"),
     max_zotero_version |-> Get(data, "max_zotero_version"),
     update_url |-> Get(data, "update_url"),
     parse_success |-> GetOr(data, "parse_success", TRUE),
     parse_error |-> Get(data, "parse_error")]

RepoCache_to_dict(self) ==
    [last_checked |-> self.last_checked,
     checked_releases |->
        [i \in DOMAIN self.checked_releases |->
            CachedRelease_to_dict(self.checked_releases[i])]]

RepoCache_from_dict(data) ==
    [last_checked |-> GetOr(data, "last_checked", <<>>),
     checked_releases |->
        [i \in DOMAIN GetOr(data, "checked_releases", <<>>) |->
            CachedRelease_from_dict(data.checked_releases[i])]]

get_checked_tags(self) ==
    {self.checked_releases[i].tag : i \in DOMAIN self.checked_releases}

\* add_release that only appends
RepoCache_add_release_append(self, release) ==
    [self EXCEPT !.checked_releases = Append(@, release)]

RepoCache_add_release(self, release) ==
    [self EXCEPT !.checked_releases =
        Append(SelectSeq(@, LAMBDA r : r.tag # release.tag), release)]

\* remove_deleted_releases: the list it returns, and the cache it leaves
removed_releases(self, current_tags) ==
    LET gone == SelectSeq(self.checked_releases, LAMBDA r : r.tag \notin current_tags)
    IN  [i \in DOMAIN gone |-> gone[i].tag]

\* remove_deleted_releases that never assigns new_releases
remove_deleted_releases_keep(self, current_tags) == self

remove_deleted_releases(self, current_tags) ==
    [self EXCEPT !.checked_releases = SelectSeq(@, LAMBDA r : r.tag \in current_tags)]

\* sorted(..., reverse=True) on the keys of a list: the positions of the list
\* in sorted order.  The sort is stable, so among equal keys the earlier
\* position stays first.
RECURSIVE sorted_desc(_)
sorted_desc(keys) ==
    IF keys = <<>> THEN <<>>
    ELSE LET n == Len(keys)
             front == sorted_desc(SubSeq(keys, 1, n - 1))
             \* n goes after every position whose key is >= its own
             keep == {i \in DOMAIN front : ~StrLess(keys[front[i]], keys[n])}
             k == IF keep = {} THEN 0 ELSE CHOOSE i \in keep : \A j \in keep : j <= i
         IN  SubSeq(front, 1, k) \o <<n>> \o SubSeq(front, k + 1, Len(front))

\* compatible.sort(key=lambda r: r.published_at, reverse=True)
sort_by_published_at_desc(releases) ==
    LET order == sorted_desc([i \in DOMAIN releases |-> releases[i].published_at])
    IN  [i \in DOMAIN releases |-> releases[order[i]]]

\* get_best_release_for_zotero without the sort: the first compatible entry
get_best_release_for_zotero_first(self, zotero_version) ==
    LET compatible == SelectSeq(self.checked_releases,
                                LAMBDA r : is_compatible_with(r, zotero_version))
    IN  IF compatible = <<>> THEN <<>> ELSE <<Head(compatible)>>

\* Optional[CachedRelease]: <<>> is None, <<r>> is the release r
get_best_release_for_zotero(self, zotero_version) ==
    LET compatible == SelectSeq(self.checked_releases,
                                LAMBDA r : is_compatible_with(r, zotero_version))
    IN  IF compatible = <<>> THEN <<>>
        ELSE <<Head(sort_by_published_at_desc(compatible))>>

(***************************************************************************)
(* cache/release_cache.py: ReleaseCache.  The operators take and return    *)
(* the _cache dictionary; no durable record exists in this model, so that  *)
(* _load_repo takes its first branch.                                      *)
(***************************************************************************)
_load_repo(repo) == RepoCache

\* _cache after get_repo_cache(repo)
get_repo_cache(c, repo) ==
    IF repo \in DOMAIN c THEN c ELSE c @@ (repo :> _load_repo(repo))

get_unchecked_tags(c, repo, all_tags) ==
    LET checked == get_checked_tags(get_repo_cache(c, repo)[repo])
    IN  SelectSeq(all_tags, LAMBDA tag : tag \notin checked)

ReleaseCache_add_release(c, repo, release) ==
    [get_repo_cache(c, repo) EXCEPT ![repo] = RepoCache_add_release(@, release)]

sync_with_github(c, repo, current_tags) ==
    [get_repo_cache(c, repo) EXCEPT ![repo] = remove_deleted_releases(@, current_tags)]

\* the list sync_with_github returns
sync_removed(c, repo, current_tags) ==
    removed_releases(get_repo_cache(c, repo)[repo], current_tags)

\* datetime.now(UTC).isoformat() at clock reading n
isoformat(n) == <<CHOOSE ch \in {"0", "1", "2", "3", "4", "5", "6", "7", "8", "9"} :
                    Ord(ch) = 48 + n>>

update_repo_checked_time(c, repo, n) ==
    [get_repo_cache(c, repo) EXCEPT ![repo].last_checked = isoformat(n)]

(***************************************************************************)
(* The values the operations are applied to                                *)
(***************************************************************************)
Repo == <<"o", "/", "a">>

T1 == <<"1">>
T2 == <<"2">>
T3 == <<"3">>
Tags == {T1, T2, T3}

ZoteroVersions == {<<"6">>, <<"7">>}    \* ZoteroApp.SUPPORTED_VERSIONS

V60 == <<"6", ".", "0">>
V65 == <<"6", ".", "5">>
V6x == <<"6", ".", "*">>
V70 == <<"7", ".", "0">>
V7x == <<"7", ".", "*">>

MaxTagList == 2

RECURSIVE SeqsUpTo(_, _)
SeqsUpTo(S, n) ==
    IF n = 0 THEN {<<>>}
    ELSE LET shorter == SeqsUpTo(S, n - 1)
         IN  shorter \cup {Append(q, x) : q \in shorter, x \in S}

TagLists == SeqsUpTo(Tags, MaxTagList)

Range(q) == {q[i] : i \in DOMAIN q}

\* Releases handed to add_release: for each tag one compatible with 6 and 7,
\* one compatible with 6 only, and one failed entry that still carries bounds
\* and the latest date.
SampleReleases ==
    {[CachedRelease(t, <<"0", "2">>, 7, <<"a">>, <<"a">>) EXCEPT
        !.addon_id = <<"a">>, !.min_zotero_version = V60,
        !.max_zotero_version = V7x] : t \in Tags}
    \cup
    {[CachedRelease(t, <<"0">> \o t, 6, <<"b">>, <<"b">>) EXCEPT
        !.addon_id = <<"a">>, !.min_zotero_version = V60,
        !.max_zotero_version = V6x] : t \in Tags}
    \cup
    {[CachedRelease(t, <<"0", "9">>, 0, <<>>, <<>>) EXCEPT
        !.min_zotero_version = V60, !.max_zotero_version = V7x,
        !.parse_success = FALSE, !.parse_error = <<"x">>] : t \in Tags}

\* Dictionaries handed to append_info
SampleIds == {None, <<"a">>, <<"b">>}

SampleScalars ==
    { [name |-> None],
      [name |-> <<"n">>, version |-> <<"1">>, description |-> <<"x">>,
       update_url |-> <<"p">>],
      [name |-> <<"z">>, version |-> <<>>, description |-> None,
       updateURL |-> <<"i">>, update_url |-> <<"p">>] }

SampleBounds ==
    { <<None, None>>, <<V60, None>>, <<V60, V7x>>, <<V65, V65>>, <<V6x, V6x>>,
      <<<<"*">>, <<"*">>>>, <<V70, V7x>>, <<<<"5">>, V60>>, <<V60, V6x>> }

SampleDetails ==
    { sc @@ [id |-> i, min_version |-> b[1], max_version |-> b[2]] :
        i \in SampleIds, sc \in SampleScalars,
        b \in SampleBounds }

(***************************************************************************)
(* GitHub and the release artifacts, as the builder sees them              *)
(***************************************************************************)
BadRepo == <<"o">>                       \* no "/": not owner/name
Repos == {Repo, BadRepo}

ContentTypes_XPI == "application/x-xpinstall"
ContentTypes_ZIP == "application/x-zip-compressed"
ContentTypes_OCTET_STREAM == "application/octet-stream"

Asset(id, name, url, content_type, updated_at) ==
    [id |-> id, name |-> name, browser_download_url |-> url,
     content_type |-> content_type, updated_at |-> updated_at]

\* The release of each tag, as the releases endpoint describes it.  Tag 1 has
\* an XPI next to a newer ZIP, tag 2 a file named *.xpi of another content
\* type, tag 3 no installable file.
ReleaseData(tag) ==
    [tag_name |-> tag,
     published_at |-> <<"0">> \o tag,
     assets |->
        IF tag = T1
        THEN << Asset(11, <<"a", ".", "z", "i", "p">>, <<"z">>, ContentTypes_ZIP, <<"2">>),
                Asset(12, <<"a", ".", "x", "p", "i">>, <<"a">>, ContentTypes_XPI, <<"1">>) >>
        ELSE IF tag = T2
        THEN << Asset(21, <<"b", ".", "x", "p", "i">>, <<"b">>,
                      ContentTypes_OCTET_STREAM, <<"1">>) >>
        ELSE << Asset(31, <<"n">>, <<"n">>, ContentTypes_OCTET_STREAM, <<"1">>) >>]

\* The releases endpoint lists the newest release first
Listing(tags) ==
    SelectSeq(<<ReleaseData(T3), ReleaseData(T2), ReleaseData(T1)>>,
              LAMBDA r : r.tag_name \in tags)

\* What the two manifest parsers extract from the file behind a download URL
\* (<<>>: the file has no such manifest, <<d>>: the details d).  "a" is the XPI of tag 1, "i" the
\* newer XPI its update manifest links to, every other file has no manifest.
Manifests(url) ==
    IF url = <<"a">>
    THEN [json |-> <<[id |-> <<"a">>, name |-> <<"n">>, version |-> <<"1">>,
                      description |-> <<"x">>, min_version |-> V60,
                      max_version |-> V7x, update_url |-> <<"p">>]>>,
          rdf |-> <<>>]
    ELSE IF url = <<"i">>
    THEN [json |-> <<[id |-> <<"a">>, name |-> <<"n">>, version |-> <<"2">>,
                      description |-> <<"x">>, min_version |-> V70,
                      max_version |-> V7x, update_url |-> <<"p">>]>>,
          rdf |-> <<>>]
    ELSE [json |-> <<>>, rdf |-> <<>>]

(***************************************************************************)
(* clients/github.py: get_releases                                         *)
(***************************************************************************)
\* The loop over the pages, from `page` on.  The request of page fail_page
\* raises (fail_page = 0: no request raises), and the except clause returns
\* the pages read so far.
RECURSIVE fetch_pages(_, _, _, _)
fetch_pages(listing, page, fail_page, all_releases) ==
    IF page > MaxPages \/ page = fail_page THEN all_releases
    ELSE LET first == (page - 1) * PerPage + 1
             final == IF page * PerPage < Len(listing) THEN page * PerPage
                      ELSE Len(listing)
             releases == SubSeq(listing, first, final)
         IN  IF releases = <<>> THEN all_releases
             ELSE IF Len(releases) < PerPage THEN all_releases \o releases
             ELSE fetch_pages(listing, page + 1, fail_page, all_releases \o releases)

get_releases(listing, fail_page) == fetch_pages(listing, 1, fail_page, <<>>)

(***************************************************************************)
(* parsers/manifest.py: RdfManifestParser.  An install.rdf is given by the *)
(* entries of its main Description (attribute or child name |-> text) and  *)
(* by the nodes that _extract_target_application_info visits in turn: each *)
(* targetApplication and each of its child elements.  <<>> is None.        *)
(***************************************************************************)
ZoteroApp_APP_ID ==
    <<"z", "o", "t", "e", "r", "o", "@", "c", "h", "n", "m", ".",
      "g", "m", "u", ".", "e", "d", "u">>

startswith(s, prefix) ==
    Len(s) >= Len(prefix) /\ SubSeq(s, 1, Len(prefix)) = prefix

\* _extract_info(node, result): the entries of the node that are keys of result
_extract_info(node, result) ==
    [k \in DOMAIN result |-> IF k \in DOMAIN node THEN node[k] ELSE result[k]]

\* the cap of _update_version_from_target: RDF does not support Zotero 7
CapAt6(max_ver) ==
    IF compare_versions(replace(max_ver, "*", <<"9", "9", "9">>), V6x) > 0
    THEN V6x ELSE max_ver

\* _update_version_from_target without the cap
_update_version_from_target_nocap(details, version_info) ==
    IF version_info.id # ZoteroApp_APP_ID THEN details
    ELSE IF ~Truthy(version_info.minVersion) \/ ~Truthy(version_info.maxVersion)
    THEN details
    ELSE [details EXCEPT
            !.min_version = version_info.minVersion,
            !.max_version = version_info.maxVersion]

_update_version_from_target(details, version_info) ==
    IF version_info.id # ZoteroApp_APP_ID THEN details
    ELSE IF ~Truthy(version_info.minVersion) \/ ~Truthy(version_info.maxVersion)
    THEN details
    ELSE [details EXCEPT
            !.min_version =
                IF Truthy(@)
                THEN IF compare_versions(
                           replace(version_info.minVersion, "*", <<"0">>),
                           replace(@, "*", <<"9", "9", "9">>)) <= 0
                     THEN version_info.minVersion ELSE @
                ELSE version_info.minVersion,
            !.max_version =
                IF Truthy(@)
                THEN IF compare_versions(
                           replace(CapAt6(version_info.maxVersion), "*", <<"9", "9", "9">>),
                           replace(@, "*", <<"0">>)) >= 0
                     THEN CapAt6(version_info.maxVersion) ELSE @
                ELSE CapAt6(version_info.maxVersion)]

\* _extract_target_application_info: the nodes folded into details
RECURSIVE _extract_target_application_info(_, _)
_extract_target_application_info(targets, details) ==
    IF targets = <<>> THEN details
    ELSE _extract_target_application_info(
            Tail(targets),
            _update_version_from_target(
                details,
                _extract_info(Head(targets),
                              [id |-> None, minVersion |-> None, maxVersion |-> None])))

\* "Handle updateURL" of extract_details
HandleUpdateURL(details) ==
    IF Truthy(Get(details, "updateURL"))
    THEN [details EXCEPT !.update_url = details.updateURL]
    ELSE details

\* extract_details once the main Description is found and read
ExtractValidated(details, targets) ==
    IF \/ ~Truthy(details.id)
       \/ /\ startswith(details.id, <<"_", "_">>)
          /\ endswith(details.id, <<"_", "_">>)
    THEN <<>>
    ELSE <<HandleUpdateURL(_extract_target_application_info(targets, details))>>

RdfManifestParser_extract_details(manifest) ==
    IF manifest.description = <<>> THEN <<>>
    ELSE ExtractValidated(
            _extract_info(manifest.description[1],
                          [id |-> None, name |-> None, version |-> None,
                           description |-> None, min_version |-> None,
                           max_version |-> None, update_url |-> None]),
            manifest.targets)

(***************************************************************************)
(* parsers/xpi_parser.py: XPIParser.parse with the default priority        *)
(* ["json", "rdf"].  Optional[XpiDetail]: <<>> is None, <<d>> the detail d *)
(***************************************************************************)
AppendFrom(xpi_detail, details) ==
    IF details # <<>> THEN append_info(xpi_detail, details[1]) ELSE xpi_detail

ValidOrNone(xpi_detail) == IF is_valid(xpi_detail) THEN <<xpi_detail>> ELSE <<>>

XPIParser_parse(manifests) ==
    ValidOrNone(AppendFrom(AppendFrom(XpiDetail, manifests.json), manifests.rdf))

\* the loop of XPIParser.parse reading both sources whatever the list holds
parse_sources_all(xpi_detail, manifests, priority_sources) ==
    AppendFrom(AppendFrom(xpi_detail, manifests.json), manifests.rdf)

\* the loop of XPIParser.parse over priority_sources
RECURSIVE parse_sources(_, _, _)
parse_sources(xpi_detail, manifests, priority_sources) ==
    IF priority_sources = <<>> THEN xpi_detail
    ELSE parse_sources(
            IF Head(priority_sources) = "json"
            THEN AppendFrom(xpi_detail, manifests.json)
            ELSE IF Head(priority_sources) = "rdf"
            THEN AppendFrom(xpi_detail, manifests.rdf)
            ELSE xpi_detail,
            manifests, Tail(priority_sources))

\* XPIParser.parse(addon_path, priority_sources)
XPIParser_parse_sources(manifests, priority_sources) ==
    ValidOrNone(parse_sources(XpiDetail, manifests, priority_sources))

\* XPIParser.parse(addon_path, priority_sources): whether it raises
\* XPIParseError and what it returns.  exists: the path exists.
XPIParser_parse_path(exists, manifests, priority_sources) ==
    IF ~exists THEN [raised |-> TRUE, ret |-> <<>>]
    ELSE [raised |-> FALSE, ret |-> XPIParser_parse_sources(manifests, priority_sources)]

\* what _parse_json and _parse_rdf have to append: the details the manifest
\* parser extracts, nothing when the parser raises (the except clause of
\* _parse_json and _parse_rdf) 
parsed_manifests(json, rdf, json_raises, rdf_raises) ==
    [json |-> IF json_raises THEN <<>> ELSE json,
     rdf |-> IF rdf_raises \/ rdf = <<>> THEN <<>>
             ELSE RdfManifestParser_extract_details(rdf[1])]

(***************************************************************************)
(* The manifests of the artifacts handed to XPIParser.parse                *)
(***************************************************************************)
V30 == <<"3", ".", "0">>
V50 == <<"5", ".", "0">>
V8x == <<"8", ".", "*">>

\* what JsonManifestParser.extract_details returns for the manifest.json of
\* an artifact (<<>>: the artifact has none)
SampleJson ==
    { <<>>,
      <<[name |-> <<"n">>, version |-> <<"1">>, description |-> <<"x">>,
         id |-> <<"a">>, min_version |-> V60, max_version |-> V7x,
         update_url |-> <<"p">>]>>,
      <<[name |-> <<"z">>, version |-> <<>>, description |-> None,
         id |-> <<"a">>, min_version |-> None, max_version |-> None,
         update_url |-> None]>>,
      <<[name |-> <<"z">>, version |-> <<"3">>, description |-> None,
         id |-> <<"b">>, min_version |-> V70, max_version |-> V7x,
         update_url |-> None]>> }

\* a targetApplication element: no entry of its own, the values are in its child
TargetApplication == [Description |-> <<>>]

Target(id, minVersion, maxVersion) ==
    [id |-> id, minVersion |-> minVersion, maxVersion |-> maxVersion]

SampleTargets ==
    { <<>>,
      <<TargetApplication, Target(ZoteroApp_APP_ID, V30, V8x)>>,
      <<TargetApplication, Target(ZoteroApp_APP_ID, V60, V6x)>>,
      <<TargetApplication, Target(ZoteroApp_APP_ID, V30, V50)>>,
      <<TargetApplication, Target(ZoteroApp_APP_ID, V70, V7x)>>,
      <<TargetApplication, Target(<<"t">>, V30, V8x)>>,
      <<TargetApplication, [id |-> ZoteroApp_APP_ID, minVersion |-> V30]>>,
      <<TargetApplication, Target(ZoteroApp_APP_ID, V50, V50),
        TargetApplication, Target(ZoteroApp_APP_ID, V30, V8x)>>,
      <<TargetApplication, Target(<<"t">>, V30, V8x),
        TargetApplication, Target(ZoteroApp_APP_ID, V60, V6x)>> }

SampleDescriptions ==
    { [id |-> <<"a">>, name |-> <<"r">>, version |-> <<"2">>,
       description |-> <<"y">>, updateURL |-> <<"u">>],
      [id |-> <<"a">>, creator |-> <<"c">>],
      [id |-> <<"_", "_", "i", "_", "_">>, name |-> <<"r">>],
      [name |-> <<"r">>, version |-> <<"2">>] }

\* the install.rdf of an artifact (<<>>: the artifact has none)
SampleRdf ==
    { <<>>, <<[description |-> <<>>, targets |-> <<>>]>> }
    \cup { <<[description |-> <<d>>, targets |-> t]>> :
              d \in SampleDescriptions, t \in SampleTargets }

(***************************************************************************)
(* services/cache_builder.py                                               *)
(***************************************************************************)
\* the three passes of _find_xpi_asset over sorted_assets
FirstXpiAsset(sorted_assets) ==
    IF \E i \in DOMAIN sorted_assets : sorted_assets[i].content_type = ContentTypes_XPI
    THEN <<Head(SelectSeq(sorted_assets, LAMBDA a : a.content_type = ContentTypes_XPI))>>
    ELSE IF \E i \in DOMAIN sorted_assets :
                sorted_assets[i].content_type = ContentTypes_ZIP
    THEN <<Head(SelectSeq(sorted_assets, LAMBDA a : a.content_type = ContentTypes_ZIP))>>
    ELSE IF \E i \in DOMAIN sorted_assets :
                endswith(sorted_assets[i].name, <<".", "x", "p", "i">>)
    THEN <<Head(SelectSeq(sorted_assets,
                          LAMBDA a : endswith(a.name, <<".", "x", "p", "i">>)))>>
    ELSE <<>>

Permuted(q, order) == [i \in DOMAIN q |-> q[order[i]]]

_find_xpi_asset(assets) ==
    FirstXpiAsset(Permuted(assets,
                           sorted_desc([i \in DOMAIN assets |-> assets[i].updated_at])))

\* the update that _check_for_updates returns for the parsed update XPI
UpdateOrNone(update_details, xpi_url) ==
    IF update_details # <<>> /\ Truthy(update_details[1].id)
    THEN <<[details |-> update_details[1], xpi_url |-> xpi_url]>>
    ELSE <<>>

\* _check_for_updates: <<>> is None.  found: the update manifest answers,
\* lists a newer version, and its XPI "i" downloads.
_check_for_updates(details, found) ==
    IF ~Truthy(details.update_url) \/ ~Truthy(details.id) \/ ~Truthy(details.version)
    THEN <<>>
    ELSE IF ~found THEN <<>>
    ELSE UpdateOrNone(XPIParser_parse(Manifests(<<"i">>)), <<"i">>)

\* the CachedRelease that _parse_release returns for a parsed XPI
ParsedRelease(entry, d, xpi_url) ==
    [entry EXCEPT !.xpi_download_url = xpi_url,
                  !.addon_id = d.id,
                  !.addon_name = d.name,
                  !.addon_version = d.version,
                  !.addon_description = d.description,
                  !.min_zotero_version = d.min_version,
                  !.max_zotero_version = d.max_version]

\* _parse_release after the parse: the update check and the entry returned
UpdatedRelease(entry, details, updated) ==
    IF updated # <<>>
    THEN ParsedRelease(entry, updated[1].details, updated[1].xpi_url)
    ELSE ParsedRelease(entry, details, entry.xpi_download_url)

FailedRelease(entry, parse_error) ==
    [entry EXCEPT !.parse_success = FALSE, !.parse_error = parse_error]

\* _parse_release after the download
ParseDownloaded(entry, details, found) ==
    IF details = <<>> \/ ~Truthy(details[1].id)
    THEN <<FailedRelease(entry, <<"Parse failed or no addon ID">>)>>
    ELSE <<UpdatedRelease(entry, details[1], _check_for_updates(details[1], found))>>

\* _parse_release once the XPI asset is chosen
ParseAsset(release_data, xpi_asset, downloaded, found) ==
    IF xpi_asset = <<>> THEN <<>>
    ELSE IF ~downloaded
    THEN <<FailedRelease(CachedRelease(release_data.tag_name, release_data.published_at,
                                       xpi_asset[1].id, xpi_asset[1].name,
                                       xpi_asset[1].browser_download_url),
                         <<"Download failed">>)>>
    ELSE ParseDownloaded(CachedRelease(release_data.tag_name, release_data.published_at,
                                       xpi_asset[1].id, xpi_asset[1].name,
                                       xpi_asset[1].browser_download_url),
                         XPIParser_parse(Manifests(xpi_asset[1].browser_download_url)),
                         found)

\* _parse_release: <<>> is None.  downloaded: downloader.download returns a
\* path for the asset.
_parse_release(release_data, downloaded, found) ==
    ParseAsset(release_data, _find_xpi_asset(release_data.assets), downloaded, found)

\* the entry that _process_repo caches for a release: the one _parse_release
\* returns, or a failed one
CachedOrFailed(release_data, cached) ==
    IF cached # <<>> THEN cached[1]
    ELSE FailedRelease(CachedRelease(release_data.tag_name, release_data.published_at,
                                     0, <<>>, <<>>),
                       <<"No XPI found or parse failed">>)

\* the body of the loop of _process_repo for a release that is to be
\* processed, without the else branch that caches the failure
cache_release_unless_none(c, repo, release_data, downloaded, found) ==
    IF _parse_release(release_data, downloaded, found) # <<>>
    THEN ReleaseCache_add_release(c, repo,
            CachedOrFailed(release_data, _parse_release(release_data, downloaded, found)))
    ELSE c

\* the body of the loop of _process_repo for a release that is to be processed
cache_release(c, repo, release_data, downloaded, found) ==
    ReleaseCache_add_release(c, repo,
        CachedOrFailed(release_data, _parse_release(release_data, downloaded, found)))

\* the loop of _process_repo leaving the remaining releases once a download
\* has failed
RECURSIVE process_releases_stop(_, _, _, _, _, _)
process_releases_stop(c, repo, releases, tags_to_process, failing, found) ==
    IF releases = <<>> THEN c
    ELSE IF Head(releases).tag_name \in tags_to_process \cap failing
    THEN c
    ELSE process_releases_stop(
            IF Head(releases).tag_name \in tags_to_process
            THEN cache_release(c, repo, Head(releases), TRUE, found)
            ELSE c,
            repo, Tail(releases), tags_to_process, failing, found)

\* the loop of _process_repo over the fetched releases: the cache it leaves.
\* The loop reads tags_to_process in membership tests alone, so it is given
\* as the set of its elements.
RECURSIVE process_releases(_, _, _, _, _, _)
process_releases(c, repo, releases, tags_to_process, failing, found) ==
    IF releases = <<>> THEN c
    ELSE process_releases(
            IF Head(releases).tag_name \in tags_to_process
            THEN cache_release(c, repo, Head(releases),
                               Head(releases).tag_name \notin failing, found)
            ELSE c,
            repo, Tail(releases), tags_to_process, failing, found)

\* new_count of that loop
new_count(releases, tags_to_process, failing, found) ==
    Cardinality({i \in DOMAIN releases :
        /\ releases[i].tag_name \in tags_to_process
        /\ _parse_release(releases[i], releases[i].tag_name \notin failing, found) # <<>>})

\* list(current_tags): the orders in which a set can be iterated
Orders(S) == {q \in [1..Cardinality(S) -> S] : Range(q) = S}

Take(q, n) == SubSeq(q, 1, IF n < Len(q) THEN n ELSE Len(q))

(***************************************************************************)
(* Spec: the cache builder processing one repository again and again,      *)
(* while releases are published and deleted upstream                       *)
(***************************************************************************)
Init ==
    /\ upstream = {}
    /\ cache = <<>>
    /\ dirty = {}
    /\ now = 0
    /\ detail = XpiDetail
    /\ last = [op |-> "init"]

PublishRelease(tag) ==
    /\ tag \notin upstream
    /\ upstream' = upstream \cup {tag}
    /\ UNCHANGED <<cache, dirty, now, detail, last>>

DeleteRelease(tag) ==
    /\ tag \in upstream
    /\ upstream' = upstream \ {tag}
    /\ UNCHANGED <<cache, dirty, now, detail, last>>

Result(repo, full_rebuild, max_releases, fetch_error, fetched, parsed, ret) ==
    [op |-> "process_repo", repo |-> repo, full_rebuild |-> full_rebuild,
     max_releases |-> max_releases, fetch_error |-> fetch_error,
     fetched |-> fetched, parsed |-> parsed, raised |-> FALSE, ret |-> ret]

\* _process_repo(repo) for a repo that is not owner/name: raises ValueError
ProcessRepoInvalid(repo, full_rebuild, max_releases) ==
    /\ Len(split(repo, "/")) # 2
    /\ last' = [op |-> "process_repo", repo |-> repo, full_rebuild |-> full_rebuild,
                max_releases |-> max_releases, raised |-> TRUE]
    /\ UNCHANGED <<upstream, cache, dirty, now, detail>>

\* tags_to_process of _process_repo, order being list(current_tags)
to_process(c, repo, order, full_rebuild, max_releases) ==
    IF max_releases # 0
    THEN Take(IF full_rebuild THEN order ELSE get_unchecked_tags(c, repo, order),
              max_releases)
    ELSE IF full_rebuild THEN order ELSE get_unchecked_tags(c, repo, order)

\* _process_repo(repo, full_rebuild, max_releases); max_releases = 0 stands
\* for None too.  fail_page: the page of the listing whose request fails.
\* The step also chooses order: the order in which list(current_tags)
\* iterates the set (it decides which tags a limit keeps); failing: the tags
\* whose XPI does not download; found: the update check of tag 1 finds an
\* update.
ProcessRepo(repo, full_rebuild, max_releases, fail_page) ==
    LET releases == get_releases(Listing(upstream), fail_page)
        fetch_error == fail_page # 0 /\ Len(releases) = (fail_page - 1) * PerPage
        fetched == [i \in DOMAIN releases |-> releases[i].tag_name]
        current_tags == {t \in Range(fetched) : Truthy(t)}
        deleted_tags == sync_removed(cache, repo, current_tags)
        synced == sync_with_github(cache, repo, current_tags)
    IN  /\ Len(split(repo, "/")) = 2
        /\ IF releases = <<>>
           THEN /\ last' = Result(repo, full_rebuild, max_releases, fetch_error,
                                  fetched, {},
                                  [new_releases |-> 0, deleted_releases |-> 0])
                /\ UNCHANGED <<cache, dirty, now>>
           ELSE /\ now < MaxClock
                /\ now' = now + 1
                /\ dirty' = dirty \cup {repo}
                /\ \E tags_to_process \in
                         {Range(to_process(synced, repo, order, full_rebuild,
                                           max_releases)) :
                             order \in Orders(current_tags)} :
                   \E failing \in SUBSET (tags_to_process \cap {T1, T2}) :
                   \E found \in IF T1 \in tags_to_process \ failing
                                THEN BOOLEAN ELSE {FALSE} :
                      /\ cache' = update_repo_checked_time(
                                     process_releases(synced, repo, releases,
                                         tags_to_process, failing, found),
                                     repo, now')
                      /\ last' = Result(repo, full_rebuild, max_releases,
                            fetch_error, fetched, tags_to_process,
                            [new_releases |-> new_count(releases, tags_to_process,
                                                        failing, found),
                             deleted_releases |-> Len(deleted_tags)])
        /\ UNCHANGED <<upstream, detail>>

Next ==
    \/ \E tag \in Tags : PublishRelease(tag)
    \/ \E tag \in Tags : DeleteRelease(tag)
    \/ \E full_rebuild \in BOOLEAN, max_releases \in {0, 1} :
          ProcessRepoInvalid(BadRepo, full_rebuild, max_releases)
    \/ \E full_rebuild \in BOOLEAN, max_releases \in {0, 1}, fail_page \in 0..MaxPages :
          ProcessRepo(Repo, full_rebuild, max_releases, fail_page)

Spec == Init /\ [][Next]_vars

(***************************************************************************)
(* SpecXpi: one XpiDetail under any sequence of append_info calls          *)
(***************************************************************************)
InitXpi ==
    /\ upstream = {}
    /\ cache = <<>>
    /\ dirty = {}
    /\ now = 0
    /\ detail = XpiDetail
    /\ last = [op |-> "init"]

AppendInfo(details) ==
    /\ detail' = append_info(detail, details)
    /\ last' = [op |-> "append_info", details |-> details,
                mismatch |-> IdMismatch(detail, details)]
    /\ UNCHANGED <<upstream, cache, dirty, now>>

\* ZoteroApp.check_version(target_version)
check_version(target_version) == target_version \o <<".", "*">>

\* detail.check_compatible(version)
CheckCompatible(version) ==
    /\ last' = [op |-> "check_compatible", version |-> version,
                ret |-> check_compatible(detail, version)]
    /\ UNCHANGED <<upstream, cache, dirty, now, detail>>

NextXpi ==
    \/ \E details \in SampleDetails : AppendInfo(details)
    \/ \E target_version \in ZoteroVersions :
          CheckCompatible(check_version(target_version))

SpecXpi == InitXpi /\ [][NextXpi]_vars

(***************************************************************************)
(* SpecParser: XPIParser.parse called on one artifact after another        *)
(***************************************************************************)
InitParser ==
    /\ upstream = {}
    /\ cache = <<>>
    /\ dirty = {}
    /\ now = 0
    /\ detail = XpiDetail
    /\ last = [op |-> "init"]

\* XPIParser.parse(addon_path, priority_sources) on an artifact with the
\* manifest.json `json` and the install.rdf `rdf`; detail is the XpiDetail it
\* aggregates
Parse(json, rdf, priority_sources) ==
    LET manifests == [json |-> json,
                      rdf |-> IF rdf = <<>> THEN <<>>
                              ELSE RdfManifestParser_extract_details(rdf[1])]
    IN  /\ detail' = parse_sources(XpiDetail, manifests, priority_sources)
        /\ last' = [op |-> "parse", json |-> json, rdf |-> rdf,
                    manifests |-> manifests,
                    priority_sources |-> priority_sources,
                    ret |-> XPIParser_parse_sources(manifests, priority_sources)]
        /\ UNCHANGED <<upstream, cache, dirty, now>>

NextParser ==
    \E json \in SampleJson, rdf \in SampleRdf,
       priority_sources \in {<<"json", "rdf">>, <<"rdf", "json">>} :
       Parse(json, rdf, priority_sources)

SpecParser == InitParser /\ [][NextParser]_vars

(***************************************************************************)
(* parsers/manifest.py: JsonManifestParser.extract_details.  A manifest is *)
(* the dictionary json.loads returns: a function over the keys present.    *)
(* SpecJson: one call on a manifest without message placeholders           *)
(***************************************************************************)
\* the assignments of the try block for the settings of one app
with_app_settings(details, app_settings) ==
    [details EXCEPT
        !.id = Get(app_settings, "id"),
        !.min_version = Get(app_settings, "strict_min_version"),
        !.max_version = Get(app_settings, "strict_max_version"),
        !.update_url = Get(app_settings, "update_url")]

\* the loop over ("zotero", "gecko") for one location: manifest[location][app]
\* raises KeyError for a missing key and the loop continues; the settings of
\* the first app present are assigned and the loop breaks
probe_location(manifest, location, details) ==
    IF location \notin DOMAIN manifest THEN details
    ELSE IF "zotero" \in DOMAIN manifest[location]
    THEN with_app_settings(details, manifest[location]["zotero"])
    ELSE IF "gecko" \in DOMAIN manifest[location]
    THEN with_app_settings(details, manifest[location]["gecko"])
    ELSE details

\* the loop over ("applications", "browser_specific_settings") from
\* `locations` on: it breaks once details["id"] is set
RECURSIVE probe_locations(_, _, _)
probe_locations(manifest, locations, details) ==
    IF locations = <<>> \/ Truthy(details.id) THEN details
    ELSE probe_locations(manifest, Tail(locations),
                         probe_location(manifest, Head(locations), details))

JsonManifestParser_extract_details(manifest) ==
    probe_locations(
        manifest, <<"applications", "browser_specific_settings">>,
        [name |-> Get(manifest, "name"), version |-> Get(manifest, "version"),
         description |-> Get(manifest, "description"), id |-> None,
         min_version |-> None, max_version |-> None, update_url |-> None])

\* the settings of one app
AppSettings ==
    { [id |-> <<"a">>, strict_min_version |-> V60, strict_max_version |-> V7x,
       update_url |-> <<"p">>],
      [id |-> <<"b">>],
      [id |-> <<>>, strict_min_version |-> V70, strict_max_version |-> V7x],
      [strict_min_version |-> V60, strict_max_version |-> V6x,
       update_url |-> <<"q">>] }

\* the value of "applications" or "browser_specific_settings"
LocationSettings ==
    UNION { [apps -> AppSettings] : apps \in SUBSET {"zotero", "gecko"} }

JsonManifests ==
    { [name |-> <<"n">>, version |-> <<"1">>] }
    \cup { [name |-> <<"n">>, version |-> <<"1">>, applications |-> a] :
              a \in LocationSettings }
    \cup { [name |-> <<"n">>, browser_specific_settings |-> b] :
              b \in LocationSettings }
    \cup { [name |-> <<"n">>, applications |-> a, browser_specific_settings |-> b] :
              a \in LocationSettings, b \in LocationSettings }

InitJson ==
    /\ upstream = {}
    /\ cache = <<>>
    /\ dirty = {}
    /\ now = 0
    /\ detail = XpiDetail
    /\ last \in {[op |-> "args", manifest |-> manifest] : manifest \in JsonManifests}

\* JsonManifestParser.extract_details(addon_path, manifest)
ExtractDetails ==
    /\ last.op = "args"
    /\ last' = [op |-> "extract_details", manifest |-> last.manifest,
                ret |-> JsonManifestParser_extract_details(last.manifest)]
    /\ UNCHANGED <<upstream, cache, dirty, now, detail>>

NextJson == ExtractDetails

SpecJson == InitJson /\ [][NextJson]_vars

(***************************************************************************)
(* SpecSources: one call of XPIParser.parse on a path that may not exist,  *)
(* with a list of sources, the manifest parsers failing or not             *)
(***************************************************************************)
SourceLists ==
    { <<>>, <<"json">>, <<"rdf">>, <<"json", "rdf">>, <<"rdf", "json">>,
      <<"xml", "rdf">> }

SourceRdf ==
    { <<>> } \cup
    { <<[description |-> <<d>>, targets |-> t]>> :
         d \in SampleDescriptions,
         t \in { <<>>, <<TargetApplication, Target(ZoteroApp_APP_ID, V60, V6x)>> } }

InitSources ==
    /\ upstream = {}
    /\ cache = <<>>
    /\ dirty = {}
    /\ now = 0
    /\ detail = XpiDetail
    /\ last \in {[op |-> "args", exists |-> exists, json |-> json, rdf |-> rdf,
                  json_raises |-> json_raises, rdf_raises |-> rdf_raises,
                  priority_sources |-> priority_sources] :
                    exists \in BOOLEAN, json \in SampleJson, rdf \in SourceRdf,
                    json_raises \in BOOLEAN, rdf_raises \in BOOLEAN,
                    priority_sources \in SourceLists}

\* XPIParser.parse(addon_path, priority_sources)
ParsePath ==
    /\ last.op = "args"
    /\ \E manifests \in {parsed_manifests(last.json, last.rdf, last.json_raises,
                                           last.rdf_raises)} :
       \E result \in {XPIParser_parse_path(last.exists, manifests,
                                            last.priority_sources)} :
          last' = [op |-> "parse_path", exists |-> last.exists,
                   manifests |-> manifests,
                   priority_sources |-> last.priority_sources,
                   raised |-> result.raised, ret |-> result.ret]
    /\ UNCHANGED <<upstream, cache, dirty, now, detail>>

NextSources == ParsePath

SpecSources == InitSources /\ [][NextSources]_vars

(***************************************************************************)
(* models/addon.py and services/cache_scraper.py: the catalog built from   *)
(* the cache.  An Optional[int] is <<>> (None) or <<n>>; a dictionary is a *)
(* function on the keys it has.                                            *)
(***************************************************************************)
Author == [name |-> None, url |-> None, avatar |-> None]

Author_to_dict(self) ==
    [k \in {f \in {"name", "url", "avatar"} : Truthy(self[f])} |-> self[k]]

\* AddonInfo(repo=repo, releases=releases, name=name)
AddonInfo(repo, releases, name) ==
    [repo |-> repo, releases |-> releases, name |-> name, description |-> None,
     stars |-> <<>>, author |-> Author]

AddonInfo_owner(self) ==
    LET parts == split(self.repo, "/")
    IN  IF Len(parts) = 2 THEN parts[1] ELSE None

AddonInfo_repository(self) ==
    LET parts == split(self.repo, "/")
    IN  IF Len(parts) = 2 THEN parts[2] ELSE None

\* XPIProxy.ghproxy_url: quote() leaves the letters of the URLs of the model
ghproxy_url(github_url) == <<"g", "?", "q", "=">> \o github_url

\* XPIProxy.kkgithub_url: no URL of the model contains "github.com"
kkgithub_url(github_url) == github_url

XpiDownloadUrls_to_dict(self) ==
    [k \in {"github"} \cup {f \in {"ghProxy", "kgithub"} : Truthy(self[f])} |-> self[k]]

AddonRelease_to_dict(self) ==
    [k \in {f \in DOMAIN self :
                IF f = "xpiDownloadUrl" THEN self[f] # <<>> ELSE Truthy(self[f])} |->
        IF k = "xpiDownloadUrl" THEN XpiDownloadUrls_to_dict(self[k][1]) ELSE self[k]]

AddonInfo_to_dict(self) ==
    [k \in {f \in {"repo", "name", "description"} : Truthy(self[f])}
           \cup (IF self.releases # <<>> THEN {"releases"} ELSE {})
           \cup (IF self.stars # <<>> /\ self.stars # <<0>> THEN {"stars", "star"} ELSE {})
           \cup (IF Author_to_dict(self.author) # <<>> THEN {"author"} ELSE {}) |->
        IF k = "releases"
        THEN [i \in DOMAIN self.releases |-> AddonRelease_to_dict(self.releases[i])]
        ELSE IF k \in {"stars", "star"} THEN self.stars[1]
        ELSE IF k = "author" THEN Author_to_dict(self.author)
        ELSE self[k]]

TARGET_ZOTERO_VERSIONS == <<<<"7">>, <<"6">>>>

\* Optional[AddonRelease]: <<>> is None
_cached_to_addon_release(cached, zotero_version) ==
    IF ~cached.parse_success THEN <<>>
    ELSE <<[targetZoteroVersion |-> zotero_version,
            tagName |-> cached.tag,
            xpiDownloadUrl |-> <<[github |-> cached.xpi_download_url,
                                  ghProxy |-> ghproxy_url(cached.xpi_download_url),
                                  kgithub |-> kkgithub_url(cached.xpi_download_url)]>>,
            releaseDate |-> cached.published_at,
            id |-> cached.addon_id,
            xpiVersion |-> cached.addon_version,
            name |-> cached.addon_name,
            description |-> cached.addon_description,
            minZoteroVersion |-> cached.min_zotero_version,
            maxZoteroVersion |-> cached.max_zotero_version]>>

\* the loop of CacheScraper._process_repo asking for the best release of the
\* first target version at every turn
RECURSIVE best_releases_first_target(_, _)
best_releases_first_target(repo_cache, versions) ==
    IF versions = <<>> THEN <<>>
    ELSE LET cached_release ==
                get_best_release_for_zotero(repo_cache, TARGET_ZOTERO_VERSIONS[1])
         IN  (IF cached_release = <<>> THEN <<>>
              ELSE _cached_to_addon_release(cached_release[1], Head(versions)))
             \o best_releases_first_target(repo_cache, Tail(versions))

\* the loop of CacheScraper._process_repo over the target versions
RECURSIVE best_releases(_, _)
best_releases(repo_cache, versions) ==
    IF versions = <<>> THEN <<>>
    ELSE LET cached_release == get_best_release_for_zotero(repo_cache, Head(versions))
         IN  (IF cached_release = <<>> THEN <<>>
              ELSE _cached_to_addon_release(cached_release[1], Head(versions)))
             \o best_releases(repo_cache, Tail(versions))

\* GitHubClient.get_user and get_repo: <<>> when the request fails
get_user(username, github_ok) ==
    IF github_ok
    THEN <<[name |-> username, html_url |-> <<"u">>, avatar_url |-> None]>>
    ELSE <<>>

get_repo(owner, name, github_ok) ==
    IF github_ok
    THEN <<[description |-> <<"d">>,
            stargazers_count |-> IF name = <<"a">> THEN 5 ELSE 9]>>
    ELSE <<>>

_fetch_author_info(addon_info, owner, github_ok) ==
    LET user_info == get_user(owner, github_ok)
    IN  IF user_info = <<>> THEN addon_info
        ELSE [addon_info EXCEPT !.author = [name |-> user_info[1].name,
                                            url |-> user_info[1].html_url,
                                            avatar |-> user_info[1].avatar_url]]

_fetch_repo_info(addon_info, owner, name, github_ok) ==
    LET repo_info == get_repo(owner, name, github_ok)
    IN  IF repo_info = <<>> THEN addon_info
        ELSE [addon_info EXCEPT
                !.description = IF ~Truthy(@) /\ Truthy(repo_info[1].description)
                                THEN repo_info[1].description ELSE @,
                !.stars = <<repo_info[1].stargazers_count>>]

\* the end of CacheScraper._process_repo: name and description of the first
\* release
use_first_release(addon_info, first_release) ==
    [addon_info EXCEPT
        !.name = IF Truthy(first_release.name) THEN first_release.name ELSE @,
        !.description = IF Truthy(first_release.description) /\ ~Truthy(@)
                        THEN first_release.description ELSE @]

\* CacheScraper._process_repo without the test of the number of parts: owner
\* and name are the first and the last part
CacheScraper_process_repo_unchecked(c, repo, github_ok) ==
    LET parts == split(repo, "/")
        loaded == get_repo_cache(c, repo)
        releases == best_releases(loaded[repo], TARGET_ZOTERO_VERSIONS)
    IN  IF releases = <<>>
        THEN [cache |-> loaded, ret |-> <<>>, requested |-> <<>>]
        ELSE [cache |-> loaded,
              ret |-> <<use_first_release(
                          _fetch_repo_info(
                              _fetch_author_info(
                                  AddonInfo(repo, releases, parts[Len(parts)]),
                                  parts[1], github_ok),
                              parts[1], parts[Len(parts)], github_ok),
                          releases[1])>>,
              requested |-> <<repo>>]

\* CacheScraper._process_repo(repo): the cache dictionary it leaves, the
\* Optional[AddonInfo] it returns and the remote requests it makes
CacheScraper_process_repo(c, repo, github_ok) ==
    LET parts == split(repo, "/")
    IN  IF Len(parts) # 2 THEN [cache |-> c, ret |-> <<>>, requested |-> <<>>]
        ELSE LET loaded == get_repo_cache(c, repo)
                 releases == best_releases(loaded[repo], TARGET_ZOTERO_VERSIONS)
             IN  IF releases = <<>>
                 THEN [cache |-> loaded, ret |-> <<>>, requested |-> <<>>]
                 ELSE [cache |-> loaded,
                       ret |-> <<use_first_release(
                                   _fetch_repo_info(
                                       _fetch_author_info(
                                           AddonInfo(repo, releases, parts[2]),
                                           parts[1], github_ok),
                                       parts[1], parts[2], github_ok),
                                   releases[1])>>,
                       requested |-> <<repo>>]

\* the workers of scrape_all one after the other, in the order in which the
\* futures complete: the cache, addon_infos and the remote requests
RECURSIVE scrape_repos(_, _, _)
scrape_repos(c, repos, github_ok) ==
    IF repos = <<>> THEN [cache |-> c, addon_infos |-> <<>>, requested |-> <<>>]
    ELSE LET result == CacheScraper_process_repo(c, Head(repos), github_ok)
             rest == scrape_repos(result.cache, Tail(repos), github_ok)
         IN  [rest EXCEPT !.addon_infos = result.ret \o @,
                          !.requested = result.requested \o @]

\* result.sort(key=lambda x: x.get("stars") or 0, reverse=True): the sort is
\* stable
stars_key(x) == IF "stars" \in DOMAIN x THEN x.stars ELSE 0

RECURSIVE sort_by_stars_desc(_)
sort_by_stars_desc(result) ==
    IF result = <<>> THEN <<>>
    ELSE LET n == Len(result)
             front == sort_by_stars_desc(SubSeq(result, 1, n - 1))
             keep == {i \in DOMAIN front : stars_key(front[i]) >= stars_key(result[n])}
             k == IF keep = {} THEN 0 ELSE CHOOSE i \in keep : \A j \in keep : j <= i
         IN  SubSeq(front, 1, k) \o <<result[n]>> \o SubSeq(front, k + 1, Len(front))

(***************************************************************************)
(* SpecCache: the ReleaseCache of one repository under any sequence of     *)
(* add_release, sync_with_github, get_unchecked_tags and                   *)
(* get_best_release_for_zotero calls, starting from an empty cache         *)
(***************************************************************************)
InitCache ==
    /\ upstream = {}
    /\ cache = <<>>
    /\ dirty = {}
    /\ now = 0
    /\ detail = XpiDetail
    /\ last = [op |-> "init"]

AddRelease(release) ==
    /\ cache' = ReleaseCache_add_release(cache, Repo, release)
    /\ dirty' = dirty \cup {Repo}
    /\ last' = [op |-> "add_release", release |-> release,
                replaced |-> (Repo \in DOMAIN cache
                              /\ release.tag \in get_checked_tags(cache[Repo]))]
    /\ UNCHANGED <<upstream, now, detail>>

\* sync_with_github(repo, set(all_tags))
SyncWithGithub(all_tags) ==
    LET removed == sync_removed(cache, Repo, Range(all_tags))
    IN  /\ cache' = sync_with_github(cache, Repo, Range(all_tags))
        /\ dirty' = IF removed # <<>> THEN dirty \cup {Repo} ELSE dirty
        /\ last' = [op |-> "sync_with_github", all_tags |-> all_tags, ret |-> removed]
        /\ UNCHANGED <<upstream, now, detail>>

GetUncheckedTags(all_tags) ==
    /\ cache' = get_repo_cache(cache, Repo)
    /\ last' = [op |-> "get_unchecked_tags", all_tags |-> all_tags,
                ret |-> get_unchecked_tags(cache, Repo, all_tags),
                synced |-> (last.op = "sync_with_github" /\ last.all_tags = all_tags)]
    /\ UNCHANGED <<upstream, dirty, now, detail>>

\* release_cache.get_repo_cache(repo).get_best_release_for_zotero(version)
GetBestReleaseForZotero(zotero_version) ==
    /\ cache' = get_repo_cache(cache, Repo)
    /\ last' = [op |-> "get_best_release_for_zotero", zotero_version |-> zotero_version,
                ret |-> get_best_release_for_zotero(cache'[Repo], zotero_version)]
    /\ UNCHANGED <<upstream, dirty, now, detail>>

\* CacheScraper._process_repo(repo) on the cache, and to_dict() of the
\* AddonInfo it returns: the catalog entry of the repository (<<>>: none)
CatalogEntry(github_ok) ==
    /\ \E result \in {CacheScraper_process_repo(cache, Repo, github_ok)} :
          /\ cache' = result.cache
          /\ last' = [op |-> "process_repo", github_ok |-> github_ok,
                      ret |-> result.ret,
                      entry |-> IF result.ret = <<>> THEN <<>>
                                ELSE <<AddonInfo_to_dict(result.ret[1])>>]
    /\ UNCHANGED <<upstream, dirty, now, detail>>

NextCache ==
    \/ \E release \in SampleReleases : AddRelease(release)
    \/ \E all_tags \in TagLists : SyncWithGithub(all_tags)
    \/ \E all_tags \in TagLists : GetUncheckedTags(all_tags)
    \/ \E zotero_version \in ZoteroVersions : GetBestReleaseForZotero(zotero_version)
    \/ \E github_ok \in BOOLEAN : CatalogEntry(github_ok)

SpecCache == InitCache /\ [][NextCache]_vars

(***************************************************************************)
(* SpecCompare: compare_versions called once on a pair of version strings  *)
(***************************************************************************)
MaxSegments == 2

\* the segments the version strings are built of: numbers whose numeric and
\* string order differ, the wildcard, a word and the empty segment
Segments == {<<"0">>, <<"9">>, <<"1", "0">>, <<"*">>, <<"a">>, <<>>}

\* the strings of 1..n segments joined by "."
RECURSIVE Dotted(_)
Dotted(n) ==
    IF n = 1 THEN Segments
    ELSE Dotted(n - 1) \cup {v \o <<".">> \o p : v \in Dotted(n - 1), p \in Segments}

\* version strings of the docstring and the tests of compare_versions, and
\* strings with "-" and "+"
ExampleVersions ==
    { <<"1", ".", "0">>, <<"1", ".", "0", ".", "0">>, <<"1", ".", "0", ".", "1">>,
      <<"7", ".", "*">>, <<"6", ".", "*">>,
      <<"1", ".", "0", ".", "0", "-", "b", "e", "t", "a">>,
      <<"1", ".", "0", ".", "0", "-", "a", "l", "p", "h", "a">>,
      <<"9", "-", "1", "0">>, <<"9", "-", "*">>, <<"+", "9">>, <<"+">> }

Versions == Dotted(MaxSegments) \cup ExampleVersions

InitCompare ==
    /\ upstream = {}
    /\ cache = <<>>
    /\ dirty = {}
    /\ now = 0
    /\ detail = XpiDetail
    /\ last \in {[op |-> "args", version1 |-> version1, version2 |-> version2] :
                    version1 \in Versions, version2 \in Versions}

CompareVersions ==
    /\ last.op = "args"
    /\ last' = [op |-> "compare_versions",
                version1 |-> last.version1, version2 |-> last.version2,
                ret |-> compare_versions(last.version1, last.version2)]
    /\ UNCHANGED <<upstream, cache, dirty, now, detail>>

NextCompare == CompareVersions

SpecCompare == InitCompare /\ [][NextCompare]_vars

(***************************************************************************)
(* SpecRange: version_in_range called once on a version and two bounds     *)
(***************************************************************************)
V80 == <<"8", ".", "0">>

\* the versions of TestVersionInRange, and versions whose second segment is
\* above 999, a word, or empty
RangeVersions ==
    { V50, V60, V65, V70, V80, V7x,
      <<"6", ".", "1", "0", "0", "0">>, <<"6", ".", "a">>, <<"6", ".">> }

RangeBounds == {V60, V70, V80, V6x, V7x, <<"*">>}

InitRange ==
    /\ upstream = {}
    /\ cache = <<>>
    /\ dirty = {}
    /\ now = 0
    /\ detail = XpiDetail
    /\ last \in {[op |-> "args", version |-> version,
                  min_version |-> min_version, max_version |-> max_version] :
                    version \in RangeVersions,
                    min_version \in RangeBounds, max_version \in RangeBounds}

VersionInRange ==
    /\ last.op = "args"
    /\ last' = [op |-> "version_in_range", version |-> last.version,
                min_version |-> last.min_version, max_version |-> last.max_version,
                ret |-> version_in_range(last.version, last.min_version,
                                         last.max_version)]
    /\ UNCHANGED <<upstream, cache, dirty, now, detail>>

NextRange == VersionInRange

SpecRange == InitRange /\ [][NextRange]_vars

(***************************************************************************)
(* SpecDict: a RepoCache converted to a dictionary and back                *)
(***************************************************************************)
MaxReleases == 2

OptionalFields ==
    {"addon_id", "addon_name", "addon_version", "addon_description",
     "min_zotero_version", "max_zotero_version", "update_url", "parse_error"}

\* a release whose optional fields are None except those of present
ReleaseWith(present, parse_success) ==
    LET value(k, v) == IF k \in present THEN v ELSE None
    IN  [tag |-> T1, published_at |-> <<"0", "1">>, xpi_asset_id |-> 12,
         xpi_name |-> <<"a">>, xpi_download_url |-> <<"a">>,
         addon_id |-> value("addon_id", <<"a">>),
         addon_name |-> value("addon_name", <<"n">>),
         addon_version |-> value("addon_version", <<"1">>),
         addon_description |-> value("addon_description", <<"x">>),
         min_zotero_version |-> value("min_zotero_version", V60),
         max_zotero_version |-> value("max_zotero_version", V7x),
         update_url |-> value("update_url", <<"p">>),
         parse_success |-> parse_success,
         parse_error |-> value("parse_error", <<"x">>)]

\* every combination of absent optional fields, parsed or not
AllReleases ==
    {ReleaseWith(present, parse_success) :
        present \in SUBSET OptionalFields, parse_success \in BOOLEAN}

\* the entries the builder writes: the failed one of a release without XPI
\* (0 and empty strings), a failed download, a parsed one, and a parsed one
\* whose text fields are empty strings
ListedReleases ==
    { FailedRelease(CachedRelease(T2, <<"0", "2">>, 0, <<>>, <<>>),
                    <<"No XPI found or parse failed">>),
      FailedRelease(CachedRelease(T1, <<"0", "1">>, 12, <<"a">>, <<"a">>),
                    <<"Download failed">>),
      ReleaseWith(OptionalFields \ {"update_url", "parse_error"}, TRUE),
      [ReleaseWith(OptionalFields \ {"parse_error"}, TRUE) EXCEPT
          !.addon_name = <<>>, !.update_url = <<>>, !.published_at = <<>>] }

RepoCaches ==
    {[last_checked |-> last_checked, checked_releases |-> checked_releases] :
        last_checked \in {<<>>, <<"1">>},
        checked_releases \in SeqsUpTo(ListedReleases, MaxReleases)
                             \cup {<<r>> : r \in AllReleases}}

InitDict ==
    /\ upstream = {}
    /\ cache = <<>>
    /\ dirty = {}
    /\ now = 0
    /\ detail = XpiDetail
    /\ last \in {[op |-> "args", self |-> self] : self \in RepoCaches}

ToDict ==
    /\ last.op = "args"
    /\ last' = [op |-> "to_dict", self |-> last.self,
                data |-> RepoCache_to_dict(last.self)]
    /\ UNCHANGED <<upstream, cache, dirty, now, detail>>

FromDict ==
    /\ last.op = "to_dict"
    /\ last' = [op |-> "from_dict", self |-> last.self, data |-> last.data,
                ret |-> RepoCache_from_dict(last.data)]
    /\ UNCHANGED <<upstream, cache, dirty, now, detail>>

NextDict == ToDict \/ FromDict

SpecDict == InitDict /\ [][NextDict]_vars

\* _process_repo(repo, full_rebuild, max_releases) on the cache c at clock
\* reading n: whether it raises, the cache it leaves, the dict it returns and
\* the repositories whose releases it has requested.
\* listing: the releases of the repository; e.fail_page: the page whose
\* request fails; e.order: the order in which sets of tags are iterated;
\* e.failing: the tags whose XPI does not download; e.found: the update check
\* of tag 1 finds an update.
_process_repo(c, repo, full_rebuild, max_releases, listing, e, n) ==
    IF Len(split(repo, "/")) # 2
    THEN [raised |-> TRUE, cache |-> c, dirty |-> {}, requested |-> <<>>]
    ELSE LET releases == get_releases(listing, e.fail_page)
             fetched == [i \in DOMAIN releases |-> releases[i].tag_name]
             current_tags == {t \in Range(fetched) : Truthy(t)}
             deleted_tags == sync_removed(c, repo, current_tags)
             synced == sync_with_github(c, repo, current_tags)
             tags_to_process ==
                Range(to_process(synced, repo,
                                 SelectSeq(e.order, LAMBDA t : t \in current_tags),
                                 full_rebuild, max_releases))
         IN  IF releases = <<>>
             THEN [raised |-> FALSE, cache |-> c, dirty |-> {},
                   requested |-> <<repo>>,
                   ret |-> [new_releases |-> 0, deleted_releases |-> 0]]
             ELSE [raised |-> FALSE,
                   requested |-> <<repo>>,
                   cache |-> update_repo_checked_time(
                                process_releases(synced, repo, releases,
                                    tags_to_process, e.failing, e.found),
                                repo, n),
                   dirty |-> {repo},
                   ret |-> [new_releases |-> new_count(releases, tags_to_process,
                                                       e.failing, e.found),
                            deleted_releases |-> Len(deleted_tags)]]

\* the stats of build_cache before the first repository
NoStats ==
    [repos_processed |-> 0, repos_failed |-> 0, new_releases_parsed |-> 0,
     releases_deleted |-> 0, errors |-> <<>>]

\* the try block of build_cache and build_cache_parallel for one repository
count_repo(stats, repo, result) ==
    IF result.raised
    THEN [stats EXCEPT !.repos_failed = @ + 1, !.errors = Append(@, repo)]
    ELSE [stats EXCEPT !.repos_processed = @ + 1,
                       !.new_releases_parsed = @ + result.ret.new_releases,
                       !.releases_deleted = @ + result.ret.deleted_releases]

\* ReleaseCache.save(): every dirty repository is written, every write
\* succeeds
save(d) == {}

(***************************************************************************)
(* SpecBuild: one run of build_cache or build_cache_parallel over a list   *)
(* of repositories, on an empty cache or on the cache an earlier run left  *)
(***************************************************************************)
Repo2 == <<"o", "/", "b">>
BadRepo3 == <<"o", "/", "a", "/", "b">>      \* three components

RepoLists ==
    { <<BadRepo>>, <<BadRepo, Repo>>, <<Repo, Repo2>>,
      <<Repo2, BadRepo3, Repo>> }

\* the tags upstream of a repository: those of o/b do not change
UpstreamOf(repo, up) == IF repo = Repo2 THEN {T1, T2} ELSE up

BuildUpstreams == {{}, {T1, T2}, {T2, T3}}

\* what happens to the requests of a run, for each repository
RepoEnvs ==
    {[fail_page |-> fail_page, order |-> order, failing |-> failing, found |-> found] :
        fail_page \in 0..MaxPages, order \in {<<T1, T2, T3>>, <<T3, T2, T1>>},
        failing \in SUBSET {T1, T2}, found \in BOOLEAN}

Repo2Envs ==
    {[fail_page |-> fail_page, order |-> <<T1, T2, T3>>, failing |-> failing,
      found |-> FALSE] :
        fail_page \in {0, 1}, failing \in SUBSET {T1, T2}}

Envs == {(Repo :> e1) @@ (Repo2 :> e2) : e1 \in RepoEnvs, e2 \in Repo2Envs}

EnvOf(env, repo) == IF repo \in DOMAIN env THEN env[repo] ELSE env[Repo]

\* the cache after an earlier run that found release 1 of o/a
Earlier ==
    update_repo_checked_time(
        process_releases(<<>>, Repo, Listing({T1}), {T1}, {}, FALSE), Repo, 1)

InitBuild ==
    /\ upstream \in BuildUpstreams
    /\ cache \in {<<>>, Earlier}
    /\ now = IF cache = <<>> THEN 0 ELSE 1
    /\ dirty = {}
    /\ detail = XpiDetail
    /\ last \in {[op |-> "args", repos |-> repos, full_rebuild |-> full_rebuild,
                  max_releases |-> max_releases, env |-> env] :
                    repos \in RepoLists, full_rebuild \in BOOLEAN,
                    max_releases \in {0, 1}, env \in Envs}

\* the repositories processed one after the other, each at clock reading n:
\* the cache and the stats after the last one, and the repositories whose
\* releases were requested
RECURSIVE run_repos(_, _, _, _, _, _, _, _)
run_repos(c, stats, repos, full_rebuild, max_releases, up, env, n) ==
    IF repos = <<>> THEN [cache |-> c, stats |-> stats, requested |-> <<>>]
    ELSE LET result == _process_repo(c, Head(repos), full_rebuild, max_releases,
                                     Listing(UpstreamOf(Head(repos), up)),
                                     EnvOf(env, Head(repos)), n)
             rest == run_repos(result.cache, count_repo(stats, Head(repos), result),
                               Tail(repos), full_rebuild, max_releases, up, env, n)
         IN  [rest EXCEPT !.requested = result.requested \o @]

\* build_cache(repos, full_rebuild, max_releases_per_repo)
BuildCache ==
    /\ last.op = "args"
    /\ now' = now + 1
    /\ LET run == run_repos(cache, NoStats, last.repos, last.full_rebuild,
                            last.max_releases, upstream, last.env, now')
       IN  /\ cache' = run.cache
           /\ last' = [op |-> "build_cache", repos |-> last.repos,
                       full_rebuild |-> last.full_rebuild,
                       max_releases |-> last.max_releases, env |-> last.env,
                       requested |-> run.requested, ret |-> run.stats]
    /\ dirty' = save(dirty)
    /\ UNCHANGED <<upstream, detail>>

\* build_cache_parallel(repos, full_rebuild, max_releases_per_repo): each
\* worker changes the RepoCache of its own repository alone, so the run is
\* the run over the repositories in the order in which the futures complete
BuildCacheParallel ==
    /\ last.op = "args"
    /\ now' = now + 1
    /\ \E completed \in Orders(DOMAIN last.repos) :
          LET run == run_repos(cache, NoStats,
                               [i \in DOMAIN last.repos |-> last.repos[completed[i]]],
                               last.full_rebuild, last.max_releases, upstream,
                               last.env, now')
          IN  /\ cache' = run.cache
              /\ last' = [op |-> "build_cache_parallel", repos |-> last.repos,
                          full_rebuild |-> last.full_rebuild,
                          max_releases |-> last.max_releases, env |-> last.env,
                          requested |-> run.requested, ret |-> run.stats]
    /\ dirty' = save(dirty)
    /\ UNCHANGED <<upstream, detail>>

NextBuild == BuildCache \/ BuildCacheParallel

SpecBuild == InitBuild /\ [][NextBuild]_vars

(***************************************************************************)
(* SpecCatalog: one run of the builder or of the catalog scraper over a    *)
(* list of repositories, some of them not owner/name                       *)
(***************************************************************************)
CatalogEnvs ==
    {(Repo :> e) @@ (Repo2 :> e) :
        e \in {[fail_page |-> fail_page, order |-> <<T1, T2, T3>>,
                failing |-> failing, found |-> FALSE] :
                  fail_page \in {0, 1}, failing \in {{}, {T1}}}}

\* the cache after an earlier run that found release 1 of o/a and of o/b
Built ==
    update_repo_checked_time(
        process_releases(Earlier, Repo2, Listing({T1}), {T1}, {}, FALSE), Repo2, 1)

InitCatalog ==
    /\ upstream \in BuildUpstreams
    /\ cache \in {<<>>, Earlier, Built}
    /\ now = IF cache = <<>> THEN 0 ELSE 1
    /\ dirty = {}
    /\ detail = XpiDetail
    /\ last \in {[op |-> "args", repos |-> repos, full_rebuild |-> full_rebuild,
                  max_releases |-> max_releases, env |-> env] :
                    repos \in RepoLists, full_rebuild \in BOOLEAN,
                    max_releases \in {0, 1}, env \in CatalogEnvs}

\* scrape_all() with the repositories of the input directory being repos and
\* no previous_info_urls; github_ok: the user and repository requests succeed
ScrapeAll(github_ok) ==
    /\ last.op = "args"
    /\ \E completed \in Orders(DOMAIN last.repos) :
       \E run \in {scrape_repos(cache,
                       [i \in DOMAIN last.repos |-> last.repos[completed[i]]],
                       github_ok)} :
       \E result \in {[i \in DOMAIN run.addon_infos |->
                          AddonInfo_to_dict(run.addon_infos[i])]} :
          /\ cache' = run.cache
          /\ last' = [op |-> "scrape_all", repos |-> last.repos,
                      github_ok |-> github_ok, requested |-> run.requested,
                      ret |-> sort_by_stars_desc(result)]
    /\ UNCHANGED <<upstream, dirty, now, detail>>

\* AddonInfo(repo=repo, releases=[]).owner and .repository
AddonInfoParts(repo) ==
    /\ last.op = "args"
    /\ repo \in Range(last.repos)
    /\ last' = [op |-> "addon_info", repo |-> repo,
                owner |-> AddonInfo_owner(AddonInfo(repo, <<>>, None)),
                repository |-> AddonInfo_repository(AddonInfo(repo, <<>>, None))]
    /\ UNCHANGED <<upstream, cache, dirty, now, detail>>

NextCatalog ==
    \/ BuildCache
    \/ BuildCacheParallel
    \/ \E github_ok \in BOOLEAN : ScrapeAll(github_ok)
    \/ \E repo \in {Repo, Repo2, BadRepo, BadRepo3} : AddonInfoParts(repo)

SpecCatalog == InitCatalog /\ [][NextCatalog]_vars

(***************************************************************************)
(* SpecParallel: one run of build_cache_parallel, its worker tasks         *)
(* interleaved.  last holds the run: the durable records (files), the      *)
(* RepoCache objects created so far (heap), the _cache dictionary as       *)
(* repo |-> position in heap (mem), one record per submitted task, the     *)
(* stats, and the (repo, tag) pairs whose add_release call has returned    *)
(* (added).  cache is the _cache dictionary with the objects in place of   *)
(* their positions.                                                        *)
(***************************************************************************)
\* the durable record of a repository that json.load cannot read
Unreadable == [unreadable |-> TRUE]

\* _load_repo(repo) with the durable records files (repo |-> dictionary)
load_repo_file(files, repo) ==
    IF repo \notin DOMAIN files THEN RepoCache
    ELSE IF "unreadable" \in DOMAIN files[repo] THEN RepoCache
    ELSE RepoCache_from_dict(files[repo])

\* _save_repo(repo) for every repo of the dirty set d, the writes of the
\* repositories in failing_writes raising: the durable records it leaves
saved_files(files, c, d, failing_writes) ==
    [repo \in DOMAIN files \cup ((d \cap DOMAIN c) \ failing_writes) |->
        IF repo \in (d \cap DOMAIN c) \ failing_writes
        THEN RepoCache_to_dict(c[repo])
        ELSE files[repo]]

\* save() emptying the dirty set whether the writes succeed or not
saved_dirty_all(c, d, failing_writes) == {}

\* the dirty set save() leaves
saved_dirty(c, d, failing_writes) == d \ ((d \cap DOMAIN c) \ failing_writes)

\* the durable records after the writes of the repositories in truncated
\* have opened their file and failed before the dictionary was written
truncated_files(files, truncated) ==
    [repo \in DOMAIN files \cup truncated |->
        IF repo \in truncated THEN Unreadable ELSE files[repo]]

\* _cache after get_repo_cache(repo), with the durable records files
get_repo_cache_from(files, c, repo) ==
    IF repo \in DOMAIN c THEN c ELSE c @@ (repo :> load_repo_file(files, repo))

\* the durable records an earlier run left: release 1 of o/a
EarlierFiles == (Repo :> RepoCache_to_dict(Earlier[Repo]))

ParallelLists == { <<Repo, Repo>>, <<Repo, Repo2>>, <<BadRepo, Repo>> }

\* a future that has been submitted and has not started
Task(repo) ==
    [repo |-> repo, pc |-> "start", then |-> "", releases |-> <<>>, tags |-> {},
     k |-> 0, obj |-> 0, tmp |-> <<>>, rel |-> <<>>, deleted |-> 0,
     new_count |-> 0, counted |-> FALSE]

InitParallel ==
    /\ upstream \in {{T1, T2}, {T2, T3}}
    /\ cache = <<>>
    /\ now = 1
    /\ dirty = {}
    /\ detail = XpiDetail
    /\ last \in {[op |-> "parallel", repos |-> repos, full_rebuild |-> full_rebuild,
                  failing |-> failing, files |-> files, heap |-> <<>>, mem |-> <<>>,
                  tasks |-> [i \in DOMAIN repos |-> Task(repos[i])],
                  stats |-> NoStats, added |-> {}] :
                    repos \in ParallelLists, full_rebuild \in BOOLEAN,
                    failing \in {{}, {T2}}, files \in {<<>>, EarlierFiles}}

\* the _cache dictionary of a run
InMemory(l) == [repo \in DOMAIN l.mem |-> l.heap[l.mem[repo]]]

\* a step of the run: l is the run after it, d the dirty set
Commit(l, d) ==
    /\ last' = l
    /\ cache' = InMemory(l)
    /\ dirty' = d
    /\ UNCHANGED <<upstream, now, detail>>

Running(i) == last.op = "parallel" /\ i \in DOMAIN last.tasks

\* the first position after k of a release whose tag is to be processed:
\* Len(releases) + 1 when there is none
next_release(releases, tags, k) ==
    IF \E j \in DOMAIN releases : j > k /\ releases[j].tag_name \in tags
    THEN CHOOSE j \in DOMAIN releases :
            /\ j > k /\ releases[j].tag_name \in tags
            /\ \A m \in DOMAIN releases :
                  (m > k /\ releases[m].tag_name \in tags) => j <= m
    ELSE Len(releases) + 1

\* _process_repo up to the call of sync_with_github
TaskStart(i) ==
    /\ Running(i)
    /\ last.tasks[i].pc = "start"
    /\ \E releases \in {get_releases(Listing(UpstreamOf(last.tasks[i].repo, upstream)), 0)} :
          Commit([last EXCEPT
                    !.tasks[i].pc =
                        IF Len(split(last.tasks[i].repo, "/")) # 2 THEN "raised"
                        ELSE IF releases = <<>> THEN "returned"
                        ELSE "get",
                    !.tasks[i].then = "sync",
                    !.tasks[i].releases =
                        IF Len(split(last.tasks[i].repo, "/")) # 2 THEN <<>>
                        ELSE releases],
                 dirty)

\* get_repo_cache: the test `repo not in self._cache` and, when it holds,
\* _load_repo; otherwise the return
GetRepoCache(i) ==
    /\ Running(i)
    /\ last.tasks[i].pc = "get"
    /\ IF last.tasks[i].repo \in DOMAIN last.mem
       THEN Commit([last EXCEPT !.tasks[i].pc = last.tasks[i].then,
                                !.tasks[i].obj = last.mem[last.tasks[i].repo]],
                   dirty)
       ELSE Commit([last EXCEPT
                      !.heap = Append(@, load_repo_file(last.files, last.tasks[i].repo)),
                      !.tasks[i].obj = Len(last.heap) + 1,
                      !.tasks[i].pc = "set"],
                   dirty)

\* get_repo_cache: self._cache[repo] = (the RepoCache loaded)
SetRepoCache(i) ==
    /\ Running(i)
    /\ last.tasks[i].pc = "set"
    /\ Commit([last EXCEPT
                 !.mem = (last.tasks[i].repo :> last.tasks[i].obj) @@ @,
                 !.tasks[i].pc = "return"],
              dirty)

\* get_repo_cache: return self._cache[repo]
ReturnRepoCache(i) ==
    /\ Running(i)
    /\ last.tasks[i].pc = "return"
    /\ Commit([last EXCEPT !.tasks[i].pc = last.tasks[i].then,
                           !.tasks[i].obj = last.mem[last.tasks[i].repo]],
              dirty)

current_tags(releases) ==
    {t \in {releases[j].tag_name : j \in DOMAIN releases} : Truthy(t)}

\* remove_deleted_releases: the loop that fills new_releases and removed
SyncRead(i) ==
    /\ Running(i)
    /\ last.tasks[i].pc = "sync"
    /\ Commit([last EXCEPT
                 !.tasks[i].tmp =
                    remove_deleted_releases(last.heap[last.tasks[i].obj],
                        current_tags(last.tasks[i].releases)).checked_releases,
                 !.tasks[i].deleted =
                    Len(removed_releases(last.heap[last.tasks[i].obj],
                                         current_tags(last.tasks[i].releases))),
                 !.tasks[i].pc = "sync_assign"],
              dirty)

\* remove_deleted_releases: self.checked_releases = new_releases; then
\* sync_with_github marks the repository dirty if a release was removed, and
\* _process_repo goes on to tags_to_process
SyncAssign(i) ==
    /\ Running(i)
    /\ last.tasks[i].pc = "sync_assign"
    /\ Commit([last EXCEPT
                 !.heap[last.tasks[i].obj].checked_releases = last.tasks[i].tmp,
                 !.tasks[i].tmp = <<>>,
                 !.tasks[i].tags =
                    IF last.full_rebuild THEN current_tags(last.tasks[i].releases)
                    ELSE {},
                 !.tasks[i].k =
                    IF last.full_rebuild
                    THEN next_release(last.tasks[i].releases,
                                      current_tags(last.tasks[i].releases), 0)
                    ELSE 0,
                 !.tasks[i].pc = IF last.full_rebuild THEN "loop" ELSE "get",
                 !.tasks[i].then = "unchecked"],
              IF last.tasks[i].deleted > 0 THEN dirty \cup {last.tasks[i].repo}
              ELSE dirty)

\* get_unchecked_tags once get_repo_cache has returned; with nothing to
\* process _process_repo goes on to update_repo_checked_time
GetUnchecked(i) ==
    /\ Running(i)
    /\ last.tasks[i].pc = "unchecked"
    /\ \E tags \in {Range(get_unchecked_tags(
                        (last.tasks[i].repo :> last.heap[last.tasks[i].obj]),
                        last.tasks[i].repo,
                        [j \in DOMAIN last.tasks[i].releases |->
                            last.tasks[i].releases[j].tag_name]))} :
          Commit([last EXCEPT
                    !.tasks[i].tags = tags,
                    !.tasks[i].k = next_release(last.tasks[i].releases, tags, 0),
                    !.tasks[i].pc = IF tags = {} THEN "get" ELSE "loop",
                    !.tasks[i].then = "time"],
                 dirty)

\* the loop of _process_repo at the next release to process: _parse_release
\* and the entry to cache; after the last release, on to
\* update_repo_checked_time
ParseRelease(i) ==
    /\ Running(i)
    /\ last.tasks[i].pc = "loop"
    /\ IF last.tasks[i].k > Len(last.tasks[i].releases)
       THEN Commit([last EXCEPT !.tasks[i].pc = "get", !.tasks[i].then = "time"],
                   dirty)
       ELSE \E release_data \in {last.tasks[i].releases[last.tasks[i].k]} :
            \E cached \in {_parse_release(release_data,
                                          release_data.tag_name \notin last.failing,
                                          FALSE)} :
               Commit([last EXCEPT
                         !.tasks[i].rel = <<CachedOrFailed(release_data, cached)>>,
                         !.tasks[i].new_count = IF cached # <<>> THEN @ + 1 ELSE @,
                         !.tasks[i].pc = "get",
                         !.tasks[i].then = "add"],
                      dirty)

\* RepoCache.add_release: the list comprehension
AddFilter(i) ==
    /\ Running(i)
    /\ last.tasks[i].pc = "add"
    /\ Commit([last EXCEPT
                 !.tasks[i].tmp =
                    SelectSeq(last.heap[last.tasks[i].obj].checked_releases,
                              LAMBDA r : r.tag # last.tasks[i].rel[1].tag),
                 !.tasks[i].pc = "add_assign"],
              dirty)

\* RepoCache.add_release: self.checked_releases = (the filtered list)
AddAssign(i) ==
    /\ Running(i)
    /\ last.tasks[i].pc = "add_assign"
    /\ Commit([last EXCEPT
                 !.heap[last.tasks[i].obj].checked_releases = last.tasks[i].tmp,
                 !.tasks[i].tmp = <<>>,
                 !.tasks[i].pc = "add_append"],
              dirty)

\* RepoCache.add_release: self.checked_releases.append(release); then
\* ReleaseCache.add_release marks the repository dirty and the loop goes on
AddAppend(i) ==
    /\ Running(i)
    /\ last.tasks[i].pc = "add_append"
    /\ Commit([last EXCEPT
                 !.heap[last.tasks[i].obj].checked_releases =
                    Append(@, last.tasks[i].rel[1]),
                 !.added = @ \cup {<<last.tasks[i].repo, last.tasks[i].rel[1].tag>>},
                 !.tasks[i].rel = <<>>,
                 !.tasks[i].k = next_release(last.tasks[i].releases,
                                             last.tasks[i].tags, last.tasks[i].k),
                 !.tasks[i].pc = "loop"],
              dirty \cup {last.tasks[i].repo})

\* update_repo_checked_time once get_repo_cache has returned, and the return
\* of _process_repo
CheckedTime(i) ==
    /\ Running(i)
    /\ last.tasks[i].pc = "time"
    /\ Commit([last EXCEPT
                 !.heap[last.tasks[i].obj].last_checked = isoformat(now),
                 !.tasks[i].pc = "returned"],
              dirty \cup {last.tasks[i].repo})

\* the body of `for future in as_completed(futures)` for a finished task
Completed(i) ==
    /\ Running(i)
    /\ last.tasks[i].pc \in {"returned", "raised"}
    /\ ~last.tasks[i].counted
    /\ Commit([last EXCEPT
                 !.tasks[i].counted = TRUE,
                 !.stats = count_repo(@, last.tasks[i].repo,
                              [raised |-> last.tasks[i].pc = "raised",
                               ret |-> [new_releases |-> last.tasks[i].new_count,
                                        deleted_releases |-> last.tasks[i].deleted]])],
              dirty)

\* self.cache.save() after the pool has shut down, and the return
SaveParallel ==
    /\ last.op = "parallel"
    /\ \A i \in DOMAIN last.tasks : last.tasks[i].counted
    /\ Commit([last EXCEPT
                 !.op = "build_cache_parallel",
                 !.files = saved_files(@, cache, dirty, {})],
              saved_dirty(cache, dirty, {}))

NextParallel ==
    \/ \E i \in 1..2 :
          \/ TaskStart(i) \/ GetRepoCache(i) \/ SetRepoCache(i) \/ ReturnRepoCache(i)
          \/ SyncRead(i) \/ SyncAssign(i) \/ GetUnchecked(i) \/ ParseRelease(i)
          \/ AddFilter(i) \/ AddAssign(i) \/ AddAppend(i) \/ CheckedTime(i)
          \/ Completed(i)
    \/ SaveParallel

SpecParallel == InitParallel /\ [][NextParallel]_vars

(***************************************************************************)
(* SpecCompat: the two compatibility checks on the same bounds: the one of *)
(* a cached entry and the one of the detail the entry was made from        *)
(***************************************************************************)
V601 == <<"6", ".", "0", ".", "1">>
V701 == <<"7", ".", "0", ".", "1">>

\* bounds a detail can hold: append_info stores non-empty strings only, and
\* "*" is the default
CompatBounds == {V60, V65, V6x, V70, V7x, V601, V701, <<"*">>, <<"5">>}

InitCompat ==
    /\ upstream = {}
    /\ cache = <<>>
    /\ dirty = {}
    /\ now = 0
    /\ detail = XpiDetail
    /\ last \in {[op |-> "args", min_version |-> min_version,
                  max_version |-> max_version, zotero_version |-> zotero_version] :
                    min_version \in CompatBounds, max_version \in CompatBounds,
                    zotero_version \in Range(TARGET_ZOTERO_VERSIONS)}

\* the detail with these bounds, the entry _parse_release makes from it, and
\* the answers of detail.check_compatible(ZoteroApp.check_version(T)) and of
\* entry.is_compatible_with(T)
IsCompatibleWith ==
    /\ last.op = "args"
    /\ detail' = [XpiDetail EXCEPT !.id = <<"a">>,
                                   !.min_version = last.min_version,
                                   !.max_version = last.max_version]
    /\ last' = [op |-> "is_compatible_with",
                zotero_version |-> last.zotero_version,
                entry |-> ParsedRelease(
                             CachedRelease(T1, <<"0", "1">>, 12, <<"a">>, <<"a">>),
                             detail', <<"a">>),
                ret |-> is_compatible_with(
                           ParsedRelease(
                              CachedRelease(T1, <<"0", "1">>, 12, <<"a">>, <<"a">>),
                              detail', <<"a">>),
                           last.zotero_version),
                check_compatible |->
                    check_compatible(detail', check_version(last.zotero_version))]
    /\ UNCHANGED <<upstream, cache, dirty, now>>

NextCompat == IsCompatibleWith

SpecCompat == InitCompat /\ [][NextCompat]_vars

(***************************************************************************)
(* SpecClamp: _update_version_from_target called once on the details read  *)
(* so far and the values of one targetApplication child                    *)
(***************************************************************************)
V60x == <<"6", ".", "0", ".", "*">>

\* the maxVersion a targetApplication declares
DeclaredMax == {V30, V50, V60, V65, V6x, V601, V60x, V70, V7x, V8x, <<"*">>}

\* the bounds of details before the call: none yet, or those of an earlier
\* targetApplication
FoldedBefore == { <<None, None>>, <<V30, V50>>, <<V60, V6x>> }

InitClamp ==
    /\ upstream = {}
    /\ cache = <<>>
    /\ dirty = {}
    /\ now = 0
    /\ detail = XpiDetail
    /\ last \in {[op |-> "args",
                  details |-> [id |-> <<"a">>, name |-> None, version |-> None,
                               description |-> None, min_version |-> before[1],
                               max_version |-> before[2], update_url |-> None],
                  version_info |-> Target(id, minVersion, maxVersion)] :
                    before \in FoldedBefore,
                    id \in {ZoteroApp_APP_ID, <<"t">>},
                    minVersion \in {V30, V60, None},
                    maxVersion \in DeclaredMax}

\* _update_version_from_target(details, version_info)
UpdateVersionFromTarget ==
    /\ last.op = "args"
    /\ last' = [op |-> "update_version_from_target",
                details |-> last.details,
                version_info |-> last.version_info,
                ret |-> _update_version_from_target(last.details, last.version_info)]
    /\ UNCHANGED <<upstream, cache, dirty, now, detail>>

NextClamp == UpdateVersionFromTarget

SpecClamp == InitClamp /\ [][NextClamp]_vars

(***************************************************************************)
(* SpecOrder: compare_versions called on each pair of three version        *)
(* strings, as a fold or a filter over candidates does                     *)
(***************************************************************************)
\* versions of numeric segments whose numeric and string order differ, of a
\* segment that is not a number ("1b"), and one with a wildcard
OrderVersions ==
    { <<"2">>, <<"1", "0">>, <<"1", "b">>, <<"1">>,
      <<"1", ".", "2">>, <<"1", ".", "1", "0">>, <<"1", ".", "1", "b">>,
      <<"1", ".", "0">>, <<"1", ".", "*">> }

InitOrder ==
    /\ upstream = {}
    /\ cache = <<>>
    /\ dirty = {}
    /\ now = 0
    /\ detail = XpiDetail
    /\ last \in {[op |-> "args", a |-> a, b |-> b, c |-> c] :
                    a \in OrderVersions, b \in OrderVersions, c \in OrderVersions}

\* compare_versions(a, b), compare_versions(b, c) and compare_versions(a, c)
CompareThree ==
    /\ last.op = "args"
    /\ last' = [op |-> "compare_three", a |-> last.a, b |-> last.b, c |-> last.c,
                ab |-> compare_versions(last.a, last.b),
                bc |-> compare_versions(last.b, last.c),
                ac |-> compare_versions(last.a, last.c)]
    /\ UNCHANGED <<upstream, cache, dirty, now, detail>>

NextOrder == CompareThree

SpecOrder == InitOrder /\ [][NextOrder]_vars

(***************************************************************************)
(* SpecStore: one ReleaseCache over durable records that exist, are        *)
(* missing or cannot be read, under any sequence of its operations.        *)
(* last.files holds the durable records.                                   *)
(***************************************************************************)
StoreRepos == {Repo, Repo2}

StoreReleases ==
    { [CachedRelease(T1, <<"0", "1">>, 12, <<"a">>, <<"a">>) EXCEPT
          !.addon_id = <<"a">>, !.min_zotero_version = V60,
          !.max_zotero_version = V7x],
      FailedRelease(CachedRelease(T1, <<"0", "1">>, 12, <<"a">>, <<"a">>),
                    <<"Download failed">>),
      [CachedRelease(T2, <<"0", "2">>, 21, <<"b">>, <<"b">>) EXCEPT
          !.addon_id = <<"a">>, !.min_zotero_version = V70,
          !.max_zotero_version = V7x] }

InitStore ==
    /\ upstream = {}
    /\ cache = <<>>
    /\ now = 1
    /\ dirty = {}
    /\ detail = XpiDetail
    /\ last \in {[op |-> "init", files |-> files] :
                    files \in { <<>>, EarlierFiles, (Repo :> Unreadable),
                                EarlierFiles @@ (Repo2 :> Unreadable) }}

\* get_repo_cache(repo)
StoreGetRepoCache(repo) ==
    /\ cache' = get_repo_cache_from(last.files, cache, repo)
    /\ last' = [op |-> "get_repo_cache", repo |-> repo, files |-> last.files]
    /\ UNCHANGED <<upstream, dirty, now, detail>>

\* add_release(repo, release)
StoreAddRelease(repo, release) ==
    /\ cache' = ReleaseCache_add_release(
                    get_repo_cache_from(last.files, cache, repo), repo, release)
    /\ dirty' = dirty \cup {repo}
    /\ last' = [op |-> "add_release", repo |-> repo, files |-> last.files]
    /\ UNCHANGED <<upstream, now, detail>>

\* sync_with_github(repo, current_tags)
StoreSyncWithGithub(repo, tags) ==
    /\ cache' = sync_with_github(get_repo_cache_from(last.files, cache, repo),
                                 repo, tags)
    /\ dirty' = IF sync_removed(get_repo_cache_from(last.files, cache, repo),
                                repo, tags) # <<>>
                THEN dirty \cup {repo} ELSE dirty
    /\ last' = [op |-> "sync_with_github", repo |-> repo, files |-> last.files]
    /\ UNCHANGED <<upstream, now, detail>>

\* update_repo_checked_time(repo)
StoreCheckedTime(repo) ==
    /\ cache' = update_repo_checked_time(
                    get_repo_cache_from(last.files, cache, repo), repo, now)
    /\ dirty' = dirty \cup {repo}
    /\ last' = [op |-> "update_repo_checked_time", repo |-> repo,
                files |-> last.files]
    /\ UNCHANGED <<upstream, now, detail>>

\* save(): the writes of the repositories in failing raise, those of
\* truncated after their file was opened for writing
StoreSave(failing, truncated) ==
    /\ truncated \subseteq failing
    /\ failing \subseteq dirty
    /\ dirty' = saved_dirty(cache, dirty, failing)
    /\ last' = [op |-> "save", failing |-> failing,
                files |-> truncated_files(
                             saved_files(last.files, cache, dirty, failing),
                             truncated)]
    /\ UNCHANGED <<upstream, cache, now, detail>>

NextStore ==
    \/ \E repo \in StoreRepos : StoreGetRepoCache(repo)
    \/ \E release \in StoreReleases : StoreAddRelease(Repo, release)
    \/ \E release \in {r \in StoreReleases : r.tag = T1 /\ r.parse_success} :
          StoreAddRelease(Repo2, release)
    \/ \E tags \in {{T1}, {T1, T2}} : StoreSyncWithGithub(Repo, tags)
    \/ \E repo \in StoreRepos : StoreCheckedTime(repo)
    \/ \E failing \in SUBSET StoreRepos : \E truncated \in SUBSET failing :
          StoreSave(failing, truncated)

SpecStore == InitStore /\ [][NextStore]_vars

(***************************************************************************)
(* services/scraper.py: AddonScraper, and the issues it reports.  issues   *)
(* is the list of the report_issue calls made so far, each with the kind   *)
(* of its check_id and the release it names.                               *)
(***************************************************************************)
\* AddonRelease(targetZoteroVersion=..., tagName=...) of an input config
AddonRelease(tagName, targetZoteroVersion) ==
    [targetZoteroVersion |-> targetZoteroVersion, tagName |-> tagName,
     xpiDownloadUrl |-> <<>>, releaseDate |-> None, id |-> None,
     xpiVersion |-> None, name |-> None, description |-> None,
     minZoteroVersion |-> None, maxZoteroVersion |-> None]

\* AddonRelease.zotero_check_version for the targets "6" and "7"
zotero_check_version(self) == self.targetZoteroVersion \o <<".", "*">>

\* publisher.report_issue(title, body, check_id)
report_issue(issues, check_id, release) ==
    Append(issues, [check_id |-> check_id, tagName |-> release.tagName,
                    targetZoteroVersion |-> release.targetZoteroVersion])

\* AddonScraper._find_xpi_asset: the XPI content type, then ZIP
AddonScraper_first_xpi_asset(sorted_assets) ==
    IF \E i \in DOMAIN sorted_assets : sorted_assets[i].content_type = ContentTypes_XPI
    THEN <<Head(SelectSeq(sorted_assets, LAMBDA a : a.content_type = ContentTypes_XPI))>>
    ELSE IF \E i \in DOMAIN sorted_assets :
                sorted_assets[i].content_type = ContentTypes_ZIP
    THEN <<Head(SelectSeq(sorted_assets, LAMBDA a : a.content_type = ContentTypes_ZIP))>>
    ELSE <<>>

AddonScraper_find_xpi_asset(assets) ==
    AddonScraper_first_xpi_asset(
        Permuted(assets, sorted_desc([i \in DOMAIN assets |-> assets[i].updated_at])))

\* the fields of a release that _process_release and _check_for_updates set
\* from parsed details
with_details(release, details) ==
    [release EXCEPT
        !.id = Or(details.id, @),
        !.name = Or(details.name, @),
        !.xpiVersion = Or(details.version, @),
        !.description = Or(details.description, @),
        !.minZoteroVersion = details.min_version,
        !.maxZoteroVersion = details.max_version]

\* XpiDownloadUrls(github=xpi_url)
github_only(xpi_url) == <<[github |-> xpi_url, ghProxy |-> None, kgithub |-> None]>>

\* AddonScraper._check_for_updates: the release it leaves.  found: the
\* update manifest answers, lists a newer version, and its XPI "i" downloads.
AddonScraper_check_for_updates(release, details, update_details, found) ==
    IF ~Truthy(details.update_url) \/ ~Truthy(details.id) \/ ~Truthy(details.version)
    THEN release
    ELSE IF ~found THEN release
    ELSE IF /\ update_details # <<>>
            /\ Truthy(update_details[1].id)
            /\ check_compatible(update_details[1], zotero_check_version(release))
    THEN [with_details(release, update_details[1]) EXCEPT
             !.xpiDownloadUrl = github_only(<<"i">>)]
    ELSE release

\* the issue of _process_release for a release whose bounds are both
\* missing or "*"
report_missing_bounds(issues, release) ==
    IF /\ (~Truthy(release.minZoteroVersion) \/ release.minZoteroVersion = <<"*">>)
       /\ (~Truthy(release.maxZoteroVersion) \/ release.maxZoteroVersion = <<"*">>)
    THEN report_issue(issues, "Parse min/max version failed", release)
    ELSE issues

\* _process_release once xpi_parser.parse has returned details
process_details(issues, release, details, found, priority_sources) ==
    IF details = <<>>
    THEN [issues |-> report_issue(issues, "Parse details failed", release),
          release |-> release, ret |-> "None"]
    ELSE IF ~check_compatible(details[1], zotero_check_version(release))
    THEN [issues |-> issues,
          release |-> AddonScraper_check_for_updates(
                          with_details(release, details[1]), details[1],
                          XPIParser_parse_sources(Manifests(<<"i">>), priority_sources),
                          found),
          ret |-> "invalid"]
    ELSE [issues |-> report_missing_bounds(issues,
                        AddonScraper_check_for_updates(
                            with_details(release, details[1]), details[1],
                            XPIParser_parse_sources(Manifests(<<"i">>), priority_sources),
                            found)),
          release |-> AddonScraper_check_for_updates(
                          with_details(release, details[1]), details[1],
                          XPIParser_parse_sources(Manifests(<<"i">>), priority_sources),
                          found),
          ret |-> "valid"]

\* _process_release once the XPI asset is found
process_asset(issues, release, xpi_asset, downloaded, manifests, found) ==
    IF ~downloaded
    THEN [issues |-> report_issue(issues, "Parse details failed", release),
          release |-> release, ret |-> "None"]
    ELSE process_details(issues, release,
            XPIParser_parse_sources(manifests,
                IF release.targetZoteroVersion = <<"6">> THEN <<"json", "rdf">>
                ELSE <<"rdf", "json">>),
            found,
            IF release.targetZoteroVersion = <<"6">> THEN <<"json", "rdf">>
            ELSE <<"rdf", "json">>)

\* _process_release once _find_xpi_asset has returned xpi_asset (<<>>: None)
process_found_asset(issues, release, release_info, xpi_asset, downloaded, manifests, found) ==
    IF xpi_asset = <<>>
    THEN [issues |-> issues,
          release |-> [release EXCEPT !.tagName = release_info[1].tag_name],
          ret |-> "None"]
    ELSE process_asset(issues,
            [release EXCEPT
                !.tagName = release_info[1].tag_name,
                !.xpiDownloadUrl =
                   <<[github |-> xpi_asset[1].browser_download_url,
                      ghProxy |-> ghproxy_url(xpi_asset[1].browser_download_url),
                      kgithub |-> kkgithub_url(xpi_asset[1].browser_download_url)]>>,
                !.releaseDate = xpi_asset[1].updated_at],
            xpi_asset[1], downloaded, manifests, found)

\* AddonScraper._process_release: the issues, the release as it leaves it and
\* what it returns ("None", or "valid" / "invalid" for {"valid": ...}).
\* release_info: what get_release returns (<<>>: None); downloaded: the XPI
\* downloads; manifests: the manifests of the XPI.
AddonScraper_process_release(issues, release, release_info, downloaded, manifests, found) ==
    IF ~Truthy(release.tagName) \/ release_info = <<>>
    THEN [issues |-> issues, release |-> release, ret |-> "None"]
    ELSE CHOOSE result \in
            { process_found_asset(issues, release, release_info, xpi_asset,
                                  downloaded, manifests, found) :
                 xpi_asset \in {AddonScraper_find_xpi_asset(release_info[1].assets)} } :
            TRUE

\* the first loop of _scrape_addon from the release `first` has been processed
\* into: the issues, the processed releases and what _process_release
\* returned for each
RECURSIVE process_plugin_releases(_, _, _, _, _, _)
process_rest_of_releases(first, releases, release_ok, downloaded, manifests, found) ==
    CHOOSE result \in
        { [issues |-> rest.issues,
           releases |-> <<first.release>> \o rest.releases,
           rets |-> <<first.ret>> \o rest.rets] :
             rest \in {process_plugin_releases(first.issues, Tail(releases), release_ok,
                                               downloaded, manifests, found)} } :
        TRUE

\* the first loop of _scrape_addon: the issues, the processed releases and
\* what _process_release returned for each
process_plugin_releases(issues, releases, release_ok, downloaded, manifests, found) ==
    IF releases = <<>> THEN [issues |-> issues, releases |-> <<>>, rets |-> <<>>]
    ELSE CHOOSE result \in
            { process_rest_of_releases(first, releases, release_ok, downloaded,
                                       manifests, found) :
                 first \in {AddonScraper_process_release(issues, Head(releases),
                               IF release_ok
                               THEN <<ReleaseData(Head(releases).tagName)>>
                               ELSE <<>>,
                               downloaded, manifests, found)} } :
            TRUE

\* the second loop of _scrape_addon: an issue for each invalid release
RECURSIVE report_invalid(_, _, _)
report_invalid(issues, releases, rets) ==
    IF releases = <<>> THEN issues
    ELSE report_invalid(
            IF Head(rets) = "invalid"
            THEN report_issue(issues, "Target zotero version not match", Head(releases))
            ELSE issues,
            Tail(releases), Tail(rets))

\* _scrape_addon once the first loop has given `processed`
scrape_addon_result(processed) ==
    [issues |-> report_invalid(processed.issues, processed.releases, processed.rets),
     processed |-> processed.releases,
     rets |-> processed.rets,
     releases |-> SelectSeq(processed.releases,
                            LAMBDA r : \E i \in DOMAIN processed.rets :
                                          /\ processed.rets[i] = "valid"
                                          /\ processed.releases[i] = r)]

\* AddonScraper._scrape_addon for a plugin with an owner and these releases,
\* the requests for its author and repository aside: the issues and the
\* releases it keeps (none: it returns None)
AddonScraper_scrape_addon(issues, releases, release_ok, downloaded, manifests, found) ==
    CHOOSE result \in
        { scrape_addon_result(processed) :
             processed \in {process_plugin_releases(issues, releases, release_ok,
                                                    downloaded, manifests, found)} } :
        TRUE

(***************************************************************************)
(* SpecIssues: the releases of one repository resolved by AddonScraper, or *)
(* by ReleaseCacheBuilder and then CacheScraper, and the issues reported   *)
(***************************************************************************)
PluginReleases ==
    { <<AddonRelease(T1, <<"7">>)>>, <<AddonRelease(T1, <<"6">>)>>,
      <<AddonRelease(T1, <<"7">>), AddonRelease(T1, <<"6">>)>>,
      <<AddonRelease(T2, <<"7">>), AddonRelease(T1, <<"6">>)>>,
      <<AddonRelease(T3, <<"6">>)>> }

InitIssues ==
    /\ upstream = {T1, T2}
    /\ cache = <<>>
    /\ now = 0
    /\ dirty = {}
    /\ detail = XpiDetail
    /\ last \in {[op |-> "args", releases |-> releases, release_ok |-> release_ok,
                  downloaded |-> downloaded, json |-> json, found |-> found,
                  issues |-> <<>>] :
                    releases \in PluginReleases, release_ok \in BOOLEAN,
                    downloaded \in BOOLEAN, json \in SampleJson, found \in BOOLEAN}

\* AddonScraper._scrape_addon(plugin); the XPI of release 1 holds the
\* manifest.json last.json and no install.rdf
ScrapeAddon ==
    /\ last.op = "args"
    /\ \E run \in {AddonScraper_scrape_addon(last.issues, last.releases,
                        last.release_ok, last.downloaded,
                        [json |-> last.json, rdf |-> <<>>], last.found)} :
          last' = [op |-> "scrape_addon", releases |-> last.releases,
                   release_ok |-> last.release_ok, downloaded |-> last.downloaded,
                   json |-> last.json, found |-> last.found,
                   issues |-> run.issues, processed |-> run.processed,
                   rets |-> run.rets, ret |-> run.releases]
    /\ UNCHANGED <<upstream, cache, dirty, now, detail>>

\* ReleaseCacheBuilder._process_repo(repo) and then
\* CacheScraper._process_repo(repo) for the repository of the plugin: neither
\* makes a report_issue call, so issues stays as it was.  The XPI of release 1
\* does not download when last.downloaded is false.
CachePipeline ==
    /\ last.op = "args"
    /\ now' = now + 1
    /\ \E built \in {_process_repo(cache, Repo, FALSE, 0, Listing(upstream),
                          [fail_page |-> IF last.release_ok THEN 0 ELSE 1,
                           order |-> <<T1, T2, T3>>,
                           failing |-> IF last.downloaded THEN {} ELSE {T1},
                           found |-> last.found], now')} :
       \E scraped \in {CacheScraper_process_repo(built.cache, Repo, TRUE)} :
          /\ cache' = scraped.cache
          /\ dirty' = built.dirty
          /\ last' = [op |-> "cache_pipeline", release_ok |-> last.release_ok,
                      downloaded |-> last.downloaded, found |-> last.found,
                      issues |-> last.issues, ret |-> scraped.ret]
    /\ UNCHANGED <<upstream, detail>>

NextIssues == ScrapeAddon \/ CachePipeline

SpecIssues == InitIssues /\ [][NextIssues]_vars

(***************************************************************************)
(* Properties                                                              *)
(***************************************************************************)
Releases(c) == IF Repo \in DOMAIN c THEN c[Repo].checked_releases ELSE <<>>

TagsOf(releases) == {releases[i].tag : i \in DOMAIN releases}

\* the k-th smallest element of a set of indices
Kth(idx, k) == CHOOSE i \in idx : Cardinality({j \in idx : j <= i}) = k

\* sub is q restricted to the positions idx, in the order of q
IsRestriction(sub, q, idx) ==
    /\ Len(sub) = Cardinality(idx)
    /\ \A k \in 1..Len(sub) : sub[k] = q[Kth(idx, k)]

\* a step of _process_repo that returned (the steps that publish or delete a
\* release upstream leave `last` as it was)
RunStep == upstream' = upstream /\ last'.op = "process_repo" /\ ~last'.raised

\* a run that is no rebuild and has no per-repo release limit
Incremental(l) ==
    l.op = "process_repo" /\ ~l.raised /\ ~l.full_rebuild /\ l.max_releases = 0

\* C1: in a non-rebuild run with no release limit, every tag of the fetched
\* release list that had no cache entry when _process_repo started is parsed
\* and has an entry when it returns, so that get_unchecked_tags for the same
\* list is then empty; and a second such run that fetches the same list parses
\* nothing and leaves every entry as it was.
C1_UncheckedAllCached ==
    [][ (RunStep /\ Incremental(last')) =>
          /\ last'.parsed = Range(last'.fetched) \ TagsOf(Releases(cache))
          /\ Range(last'.fetched) \subseteq TagsOf(Releases(cache'))
          /\ get_unchecked_tags(cache', Repo, last'.fetched) = <<>>
          /\ (Incremental(last) /\ last.fetched = last'.fetched =>
                /\ last'.parsed = {}
                /\ last'.ret.new_releases = 0
                /\ Releases(cache') = Releases(cache))
      ]_vars

C1_Witness ==
    /\ Incremental(last)
    /\ Len(last.fetched) = 2
    /\ last.parsed = {}
    /\ now = 2
    /\ Len(Releases(cache)) = 2
    /\ Releases(cache)[1].parse_error = <<"No XPI found or parse failed">>
    /\ Releases(cache)[2].parse_success

\* C2: when _process_repo has returned, the cache of the repository holds no
\* entry whose tag is absent from the release list just fetched; after an empty
\* list no entry is left and get_best_release_for_zotero returns nothing for
\* either target.  Stated for the runs whose fetch met no error.
C2_NoEntryOutsideFetched ==
    (last.op = "process_repo" /\ ~last.raised /\ ~last.fetch_error) =>
        /\ TagsOf(Releases(cache)) \subseteq Range(last.fetched)
        /\ last.fetched = <<>> =>
              \A zotero_version \in ZoteroVersions :
                 get_best_release_for_zotero(get_repo_cache(cache, Repo)[Repo],
                                             zotero_version) = <<>>

\* C3: a run of _process_repo whose fetch of the release list failed on some
\* page removes no cache entry whose release still exists upstream.
C3_FetchErrorRemovesNothing ==
    [][ (RunStep /\ last'.fetch_error) =>
          \A i \in DOMAIN Releases(cache) :
             Releases(cache)[i].tag \in upstream =>
                Releases(cache)[i].tag \in TagsOf(Releases(cache'))
      ]_vars

\* C4: a non-rebuild run leaves every cache entry whose tag is still present
\* upstream field for field as it was.
C4_CachedIsTerminal ==
    [][ (RunStep /\ ~last'.full_rebuild) =>
          \A i \in DOMAIN Releases(cache) :
             Releases(cache)[i].tag \in upstream =>
                \E j \in DOMAIN Releases(cache') :
                   Releases(cache')[j] = Releases(cache)[i]
      ]_vars

\* C5: sync_with_github(repo, set(R)) returns exactly the tags it removed and
\* marks the repo dirty iff it removed one, leaving no tag outside R in the
\* cache; get_unchecked_tags(repo, R) called next returns the tags of R that
\* have no cache entry, in the order of R.
C5_SyncThenUnchecked ==
    [][ /\ (last'.op = "sync_with_github" =>
              LET R == Range(last'.all_tags)
                  pre == Releases(cache)
                  post == Releases(cache')
              IN  /\ TagsOf(post) \subseteq R
                  /\ IsRestriction(post, pre, {i \in DOMAIN pre : pre[i].tag \in R})
                  /\ IsRestriction(last'.ret, [i \in DOMAIN pre |-> pre[i].tag],
                                   {i \in DOMAIN pre : pre[i].tag \notin R})
                  /\ (Repo \in dirty' \ dirty) = (last'.ret # <<>> /\ Repo \notin dirty)
                  /\ dirty \subseteq dirty')
        /\ (last'.op = "get_unchecked_tags" /\ last'.synced =>
              LET R == last'.all_tags
                  cached == TagsOf(Releases(cache'))
              IN  /\ IsRestriction(last'.ret, R, {i \in DOMAIN R : R[i] \notin cached})
                  /\ cached \subseteq Range(R)
                  /\ Releases(cache') = Releases(cache))
      ]_vars

C5_Witness ==
    /\ last.op = "get_unchecked_tags"
    /\ last.synced
    /\ Len(last.all_tags) = 2
    /\ Len(last.ret) = 1
    /\ Releases(cache) # <<>>
    /\ Repo \in dirty

\* C6: get_best_release_for_zotero never returns an entry whose parse_success
\* is false, in any state of the cache and for either target version.
C6_BestIsParsed ==
    \A zotero_version \in ZoteroVersions :
        LET best == get_best_release_for_zotero(get_repo_cache(cache, Repo)[Repo],
                                                zotero_version)
        IN  best # <<>> => best[1].parse_success

C6_Witness ==
    /\ last.op = "get_best_release_for_zotero"
    /\ last.ret # <<>>
    /\ \E i \in DOMAIN Releases(cache) :
          /\ ~Releases(cache)[i].parse_success
          /\ Truthy(Releases(cache)[i].min_zotero_version)
          /\ StrLess(last.ret[1].published_at, Releases(cache)[i].published_at)

\* C7: get_best_release_for_zotero(T) returns nothing iff no cached entry is
\* successfully parsed and compatible with T, and otherwise a compatible entry
\* whose published_at is not less, as a string, than that of any compatible
\* entry.
C7_BestIsLatestCompatible ==
    \A zotero_version \in ZoteroVersions :
        LET rs == Releases(cache)
            best == get_best_release_for_zotero(get_repo_cache(cache, Repo)[Repo],
                                                zotero_version)
            comp == {i \in DOMAIN rs : /\ rs[i].parse_success
                                       /\ is_compatible_with(rs[i], zotero_version)}
        IN  /\ (best = <<>>) = (comp = {})
            /\ best # <<>> =>
                  /\ \E i \in comp : rs[i] = best[1]
                  /\ \A j \in comp :
                        ~StrLess(best[1].published_at, rs[j].published_at)

C7_Witness ==
    /\ last.op = "get_best_release_for_zotero"
    /\ last.ret # <<>>
    /\ Len(Releases(cache)) = 3
    /\ last.ret[1] # Releases(cache)[1]
    /\ is_compatible_with(Releases(cache)[1], last.zotero_version)
    /\ \E zotero_version \in ZoteroVersions :
          get_best_release_for_zotero(cache[Repo], zotero_version) # last.ret

\* C8: no two entries of a repository share a tag; add_release puts the new
\* entry last, removes the entry that had its tag, keeps every other entry as
\* it was and in the same order, and marks the repo dirty.
C8_AddReleaseUpserts ==
    [][ /\ \A i, j \in DOMAIN Releases(cache') :
              Releases(cache')[i].tag = Releases(cache')[j].tag => i = j
        /\ (last'.op = "add_release" =>
              LET pre == Releases(cache)
                  post == Releases(cache')
                  new == last'.release
              IN  /\ post # <<>>
                  /\ post[Len(post)] = new
                  /\ IsRestriction(SubSeq(post, 1, Len(post) - 1), pre,
                                   {i \in DOMAIN pre : pre[i].tag # new.tag})
                  /\ Repo \in dirty')
      ]_vars

C8_Witness ==
    /\ last.op = "add_release"
    /\ last.replaced
    /\ Len(Releases(cache)) = 3
    /\ \E r \in SampleReleases :
          /\ r.tag = last.release.tag
          /\ r # last.release

\* C9: append_info with a non-empty id that differs from the detail's non-empty
\* id leaves all seven fields of the detail as they were.
C9_MismatchDiscardsAll ==
    [][ ( /\ last'.op = "append_info"
          /\ Truthy(last'.details.id)
          /\ Truthy(detail.id)
          /\ last'.details.id # detail.id )
        => detail' = detail ]_vars

C9_Witness ==
    /\ last.op = "append_info"
    /\ last.mismatch
    /\ Truthy(last.details.name) /\ last.details.name # detail.name
    /\ Truthy(last.details.version) /\ last.details.version # detail.version
    /\ Truthy(last.details.min_version) /\ Truthy(last.details.max_version)
    /\ detail.min_version # last.details.min_version
    /\ detail.max_version # last.details.max_version

AsMin(v) == replace(v, "*", <<"0">>)
AsMax(v) == replace(v, "*", <<"9", "9", "9">>)

\* C10: after append_info with both incoming bounds present (and no identity
\* conflict) the new min_version, reading * as 0, is not greater than the
\* previous or the incoming minimum, and the new max_version, reading * as 999,
\* is not less than the previous or the incoming maximum.  Stated for a detail
\* whose bounds are no longer the "*" of the constructor.
C10_WidestRange ==
    [][ ( /\ last'.op = "append_info"
          /\ ~last'.mismatch
          /\ Truthy(last'.details.min_version)
          /\ Truthy(last'.details.max_version)
          /\ detail.min_version # <<"*">>
          /\ detail.max_version # <<"*">> )
        => /\ compare_versions(AsMin(detail'.min_version), AsMin(detail.min_version)) <= 0
           /\ compare_versions(AsMin(detail'.min_version),
                               AsMin(last'.details.min_version)) <= 0
           /\ compare_versions(AsMax(detail'.max_version), AsMax(detail.max_version)) >= 0
           /\ compare_versions(AsMax(detail'.max_version),
                               AsMax(last'.details.max_version)) >= 0 ]_vars

C12_LastWriterWins ==
    [][ (last'.op = "append_info" /\ ~last'.mismatch) =>
          /\ detail'.name = IF Truthy(Get(last'.details, "name"))
                            THEN last'.details.name ELSE detail.name
          /\ detail'.version = IF Truthy(Get(last'.details, "version"))
                               THEN last'.details.version ELSE detail.version
          /\ detail'.description = IF Truthy(Get(last'.details, "description"))
                                   THEN last'.details.description
                                   ELSE detail.description
          /\ detail'.update_url = IF Truthy(Get(last'.details, "updateURL"))
                                  THEN last'.details.updateURL
                                  ELSE IF Truthy(Get(last'.details, "update_url"))
                                  THEN last'.details.update_url
                                  ELSE detail.update_url
          /\ (Truthy(detail.id) => detail'.id = detail.id)
      ]_vars

C12_Witness ==
    /\ last.op = "append_info"
    /\ ~last.mismatch
    /\ last.details.id = <<"a">> /\ detail.id = <<"a">>
    /\ last.details.name = <<"z">> /\ detail.name = <<"z">>
    /\ last.details.version = <<>> /\ detail.version = <<"1">>
    /\ last.details.description = None /\ detail.description = <<"x">>
    /\ detail.update_url = <<"i">>

\* C13: check_compatible(version) is true iff the detail's min_version, with *
\* as 0, is not above the target with * as 999 and its max_version, with * as
\* 999, is not below the target with * as 0.  A detail with 6.0 to 7.* is
\* compatible with 6.* and 7.*, one with max 6.* is not compatible with 7.*
\* (and with 6.0 to 6.* it is compatible with 6.*), one with 7.0 to 7.* is
\* compatible with 7.* and not with 6.*.
C13_CheckCompatibleIsOverlap ==
    last.op = "check_compatible" =>
        /\ last.ret =
              (/\ compare_versions(AsMin(detail.min_version), AsMax(last.version)) <= 0
               /\ compare_versions(AsMax(detail.max_version), AsMin(last.version)) >= 0)
        /\ (detail.min_version = V60 /\ detail.max_version = V7x) => last.ret
        /\ (detail.max_version = V6x /\ last.version = V7x) => ~last.ret
        /\ (detail.min_version = V60 /\ detail.max_version = V6x) =>
              (last.ret = (last.version = V6x))
        /\ (detail.min_version = V70 /\ detail.max_version = V7x) =>
              (last.ret = (last.version = V7x))

C13_Witness ==
    /\ last.op = "check_compatible"
    /\ last.version = V7x
    /\ detail.min_version = V60
    /\ detail.max_version = V6x
    /\ ~last.ret

\* C14: when install.rdf is the only manifest of an artifact, every
\* max_version that RdfManifestParser extracts compares less than or equal to
\* 6.*, and the detail that XPIParser.parse returns is not compatible with the
\* target 7.*.
C14_LegacyNeverSeven ==
    (last.op = "parse" /\ last.json = <<>> /\ last.rdf # <<>>) =>
        /\ (last.manifests.rdf # <<>> /\ Truthy(last.manifests.rdf[1].max_version)) =>
              compare_versions(last.manifests.rdf[1].max_version, V6x) <= 0
        /\ last.ret # <<>> => ~check_compatible(last.ret[1], V7x)

\* the segments of a version string: it is cut at every "." and every "-"
Cuts(v) == {i \in 1..Len(v) : v[i] \in {".", "-"}}

SegmentCount(v) == Cardinality(Cuts(v)) + 1

\* the k-th segment, "0" beyond the last one
Segment(v, k) ==
    IF k > SegmentCount(v) THEN <<"0">>
    ELSE LET from == IF k = 1 THEN 0 ELSE Kth(Cuts(v), k - 1)
             to == IF k = SegmentCount(v) THEN Len(v) + 1 ELSE Kth(Cuts(v), k)
         IN  SubSeq(v, from + 1, to - 1)

\* the order of two segments: numeric if both are integers, else as strings
SegmentOrder(p, q) ==
    IF IsInt(p) /\ IsInt(q)
    THEN IF IntOf(p) < IntOf(q) THEN -1 ELSE IF IntOf(p) > IntOf(q) THEN 1 ELSE 0
    ELSE IF StrLess(p, q) THEN -1 ELSE IF StrLess(q, p) THEN 1 ELSE 0

\* the positions that decide: no wildcard on either side and segments that differ
Deciding(a, b) ==
    {k \in 1..(IF SegmentCount(a) > SegmentCount(b)
               THEN SegmentCount(a) ELSE SegmentCount(b)) :
        /\ Segment(a, k) # <<"*">>
        /\ Segment(b, k) # <<"*">>
        /\ SegmentOrder(Segment(a, k), Segment(b, k)) # 0}

\* C15: compare_versions(a, b) is defined for every pair of strings, is -1, 0
\* or 1, and is the order of the segments at the first position, after cutting
\* at "." and "-" and padding with "0", where neither side is "*" and the
\* segments differ (numerically if both are integers, else as strings), or 0
\* if there is no such position; so ('1.0','1.0.0') gives 0, ('1.0.1','1.0')
\* gives 1, ('7.*','6.*') gives 1 and ('1.0.0-beta','1.0.0-alpha') gives 1.
C15_CompareIsFirstDifference ==
    last.op = "compare_versions" =>
        /\ last.ret \in {-1, 0, 1}
        /\ last.ret =
              IF Deciding(last.version1, last.version2) = {} THEN 0
              ELSE SegmentOrder(
                      Segment(last.version1, Kth(Deciding(last.version1, last.version2), 1)),
                      Segment(last.version2, Kth(Deciding(last.version1, last.version2), 1)))
        /\ (last.version1 = <<"1", ".", "0">>
            /\ last.version2 = <<"1", ".", "0", ".", "0">>) => last.ret = 0
        /\ (last.version1 = <<"1", ".", "0", ".", "1">>
            /\ last.version2 = <<"1", ".", "0">>) => last.ret = 1
        /\ (last.version1 = <<"7", ".", "*">>
            /\ last.version2 = <<"6", ".", "*">>) => last.ret = 1
        /\ (last.version1 = <<"1", ".", "0", ".", "0", "-", "b", "e", "t", "a">>
            /\ last.version2 = <<"1", ".", "0", ".", "0", "-", "a", "l", "p", "h", "a">>)
              => last.ret = 1

C15_Witness ==
    /\ last.op = "compare_versions"
    /\ last.version1 = <<"1", ".", "0", ".", "0", "-", "b", "e", "t", "a">>
    /\ last.version2 = <<"1", ".", "0", ".", "0", "-", "a", "l", "p", "h", "a">>
    /\ last.ret = 1


\* no segment of v is the wildcard
WildcardFree(v) == \A k \in 1..SegmentCount(v) : Segment(v, k) # <<"*">>

\* C16: for version strings a and b without wildcard segments,
\* compare_versions(a, b) = -compare_versions(b, a), and
\* compare_versions(a, a) = 0.
C16_Antisymmetric ==
    (/\ last.op = "compare_versions"
     /\ WildcardFree(last.version1)
     /\ WildcardFree(last.version2))
        => /\ last.ret = 0 - compare_versions(last.version2, last.version1)
           /\ last.version1 = last.version2 => last.ret = 0

\* a number against a word: the comparison falls back to strings
C16_Witness ==
    /\ last.op = "compare_versions"
    /\ last.version1 = <<"1", "0">>
    /\ last.version2 = <<"a">>
    /\ last.ret = -1
    /\ compare_versions(last.version2, last.version1) = 1


\* C17: version_in_range(v, min, max) is, for every v, min and max,
\* compare_versions(v, min') >= 0 and compare_versions(v, max') <= 0, where
\* min' is min with every "*" replaced by "0" and max' is max with every "*"
\* replaced by "999".
C17_RangeSubstitutesWildcards ==
    last.op = "version_in_range" =>
        last.ret =
            (/\ compare_versions(last.version,
                    replace(last.min_version, "*", <<"0">>)) >= 0
             /\ compare_versions(last.version,
                    replace(last.max_version, "*", <<"9", "9", "9">>)) <= 0)


CachedRelease_fields ==
    {"tag", "published_at", "xpi_asset_id", "xpi_name", "xpi_download_url",
     "parse_success"} \cup OptionalFields

\* C18: CachedRelease.from_dict(r.to_dict()) equals r field for field,
\* whichever optional fields are absent and whether parse_success is true or
\* false, and RepoCache.from_dict(c.to_dict()) equals c for a RepoCache c
\* with any list of releases.
C18_DictRoundTrip ==
    last.op = "from_dict" =>
        /\ last.ret = last.self
        /\ last.ret.last_checked = last.self.last_checked
        /\ Len(last.ret.checked_releases) = Len(last.self.checked_releases)
        /\ \A i \in DOMAIN last.self.checked_releases :
              /\ DOMAIN last.ret.checked_releases[i] = CachedRelease_fields
              /\ \A k \in CachedRelease_fields :
                    last.ret.checked_releases[i][k] = last.self.checked_releases[i][k]
              /\ CachedRelease_from_dict(
                    CachedRelease_to_dict(last.self.checked_releases[i]))
                 = last.self.checked_releases[i]

\* a failed entry without XPI next to a parsed one: the dictionaries lack the
\* None fields and keep False, 0 and the empty strings
C18_Witness ==
    /\ last.op = "from_dict"
    /\ Len(last.self.checked_releases) = 2
    /\ ~last.self.checked_releases[1].parse_success
    /\ last.self.checked_releases[1].xpi_asset_id = 0
    /\ last.self.checked_releases[1].addon_id = None
    /\ "addon_id" \notin DOMAIN last.data.checked_releases[1]
    /\ "parse_success" \in DOMAIN last.data.checked_releases[1]
    /\ last.self.checked_releases[2].parse_success
    /\ last.self.checked_releases[2].update_url = <<>>
    /\ last.ret.checked_releases[2].update_url = <<>>
    /\ last.ret.checked_releases[1].parse_error = <<"No XPI found or parse failed">>


ValidRepo(repo) == Len(split(repo, "/")) = 2

\* the tags of the release list a run fetches for a repository
FetchedTags(repo, up, env) ==
    LET releases == get_releases(Listing(UpstreamOf(repo, up)),
                                 EnvOf(env, repo).fail_page)
    IN  {releases[i].tag_name : i \in DOMAIN releases}

CachedTags(c, repo) ==
    IF repo \in DOMAIN c THEN TagsOf(c[repo].checked_releases) ELSE {}

EntryOf(c, repo, tag) ==
    CHOOSE r \in Range(c[repo].checked_releases) : r.tag = tag

HasXpi(tag) == _find_xpi_asset(ReleaseData(tag).assets) # <<>>

BuildStep ==
    /\ last.op = "args"
    /\ last'.op \in {"build_cache", "build_cache_parallel"}

\* C19: in build_cache and in build_cache_parallel a download or parse
\* failure of a release does not stop the run: repos_processed + repos_failed
\* is the number of repositories, every unchecked release of a repository
\* (all of them, or as many as the limit allows) has a cache entry after the
\* run whatever fails, and the entry of a release whose download failed is a
\* failed one with the parse_error "Download failed"; every failed entry
\* carries a parse_error.
C19_FailureIsolated ==
    [][BuildStep =>
        /\ last'.ret.repos_processed + last'.ret.repos_failed = Len(last.repos)
        /\ \A i \in DOMAIN last.repos :
              LET repo == last.repos[i]
                  fetched == FetchedTags(repo, upstream, last.env)
                  before == CachedTags(cache, repo) \cap fetched
                  unchecked == IF last.full_rebuild THEN fetched ELSE fetched \ before
                  after == CachedTags(cache', repo)
                  written == IF ~last.full_rebuild THEN after \ before
                             ELSE IF last.max_releases = 0 THEN fetched ELSE {}
              IN  (ValidRepo(repo) /\ fetched # {}) =>
                     /\ last.max_releases = 0 => unchecked \subseteq after
                     /\ (last.max_releases = 1 /\ ~last.full_rebuild) =>
                           Cardinality(after \ before) =
                              IF unchecked = {} THEN 0 ELSE 1
                     /\ \A t \in written :
                           /\ (t \in EnvOf(last.env, repo).failing /\ HasXpi(t)) =>
                                 /\ ~EntryOf(cache', repo, t).parse_success
                                 /\ EntryOf(cache', repo, t).parse_error
                                    = <<"Download failed">>
                           /\ ~EntryOf(cache', repo, t).parse_success =>
                                 Truthy(EntryOf(cache', repo, t).parse_error)
    ]_vars

\* release 1 of o/a does not download: it is cached as failed, release 2 of
\* o/a and the releases of o/b are cached all the same
C19_Witness ==
    /\ last.op = "build_cache"
    /\ last.repos = <<Repo, Repo2>>
    /\ last.max_releases = 0
    /\ upstream = {T1, T2}
    /\ last.env[Repo].failing = {T1}
    /\ last.env[Repo].fail_page = 0
    /\ last.env[Repo2].fail_page = 0
    /\ last.ret.repos_processed = 2
    /\ last.ret.repos_failed = 0
    /\ CachedTags(cache, Repo) = {T1, T2}
    /\ ~EntryOf(cache, Repo, T1).parse_success
    /\ EntryOf(cache, Repo, T1).parse_error = <<"Download failed">>
    /\ CachedTags(cache, Repo2) = {T1, T2}


\* a release list was requested for repo, or its user or repository record
Requested(l, repo) == \E i \in DOMAIN l.requested : l.requested[i] = repo

\* C20: a repository identifier that is not owner/name is skipped: the
\* builder requests nothing for it and leaves the cache without an entry for
\* it (every other repository's cache is what the run without it leaves), the
\* catalog holds no entry for it, and owner and repository of an AddonInfo
\* with that identifier are None.
C20_MalformedRepoSkipped ==
    [][(last.op = "args") =>
        \A i \in DOMAIN last.repos :
           ~ValidRepo(last.repos[i]) =>
              /\ last'.op \in {"build_cache", "build_cache_parallel"} =>
                    /\ ~Requested(last', last.repos[i])
                    /\ last.repos[i] \notin DOMAIN cache'
                    /\ cache' = run_repos(cache, NoStats,
                                    SelectSeq(last.repos, ValidRepo),
                                    last.full_rebuild, last.max_releases,
                                    upstream, last.env, now').cache
                    /\ \E k \in DOMAIN last'.ret.errors :
                          last'.ret.errors[k] = last.repos[i]
              /\ last'.op = "scrape_all" =>
                    /\ ~Requested(last', last.repos[i])
                    /\ last.repos[i] \notin DOMAIN cache'
                    /\ \A k \in DOMAIN last'.ret :
                          "repo" \in DOMAIN last'.ret[k]
                          /\ last'.ret[k].repo # last.repos[i]
              /\ (last'.op = "addon_info" /\ last'.repo = last.repos[i]) =>
                    /\ last'.owner = None
                    /\ last'.repository = None
    ]_vars

\* the catalog of a list with a three-component identifier between two
\* repositories that both have a compatible release
C20_Witness ==
    /\ last.op = "scrape_all"
    /\ last.repos = <<Repo2, BadRepo3, Repo>>
    /\ Len(last.ret) = 2
    /\ last.ret[1].repo = Repo2
    /\ last.ret[2].repo = Repo
    /\ DOMAIN cache = {Repo, Repo2}


\* a task that has got hold of a RepoCache and has not returned
Operating(l, i) ==
    /\ l.tasks[i].obj # 0
    /\ l.tasks[i].pc \notin {"start", "returned", "raised"}

\* the tags of the durable record of a repository
FileTags(files, repo) ==
    IF repo \in DOMAIN files /\ "checked_releases" \in DOMAIN files[repo]
    THEN {files[repo].checked_releases[i].tag :
             i \in DOMAIN files[repo].checked_releases}
    ELSE {}

\* every release added by a task of the run is in the cache and on record
AddedAreKept(l, c) ==
    \A added \in l.added :
       /\ added[2] \in CachedTags(c, added[1])
       /\ added[2] \in FileTags(l.files, added[1])

\* C21: in build_cache_parallel, whatever the list of repositories and the
\* interleaving of the tasks, no two tasks operate on the RepoCache of the
\* same repository at the same time, and once the run has saved, every
\* release a task added is in the in-memory cache and in the durable record.
C21_TasksOwnTheirRepoCache ==
    /\ last.op = "parallel" =>
          \A i, j \in DOMAIN last.tasks :
             (i # j /\ Operating(last, i) /\ Operating(last, j)) =>
                last.tasks[i].repo # last.tasks[j].repo
    /\ last.op = "build_cache_parallel" => AddedAreKept(last, cache)


\* the positions of the cached entries of a repository that are parsed and
\* compatible with a target version
CompatibleEntries(repo_cache, zotero_version) ==
    {i \in DOMAIN repo_cache.checked_releases :
        /\ repo_cache.checked_releases[i].parse_success
        /\ is_compatible_with(repo_cache.checked_releases[i], zotero_version)}

\* C22: the catalog entry CacheScraper builds for a repository has at least
\* one release and at most one per target version (7, then 6), each the best
\* cached release of the repository for its target (parsed, compatible, no
\* compatible entry published later); a repository without a compatible
\* cached release for any target has no entry, and every other one has one.
C22_CatalogEntryHoldsBest ==
    last.op = "process_repo" =>
        /\ (last.entry = <<>>) =
              (\A v \in Range(TARGET_ZOTERO_VERSIONS) :
                  CompatibleEntries(cache[Repo], v) = {})
        /\ last.entry # <<>> =>
              /\ "releases" \in DOMAIN last.entry[1]
              /\ Len(last.entry[1].releases) \in 1..Len(TARGET_ZOTERO_VERSIONS)
              /\ \A i, j \in DOMAIN last.entry[1].releases :
                    i < j =>
                       \E m, n \in DOMAIN TARGET_ZOTERO_VERSIONS :
                          /\ m < n
                          /\ last.entry[1].releases[i].targetZoteroVersion
                             = TARGET_ZOTERO_VERSIONS[m]
                          /\ last.entry[1].releases[j].targetZoteroVersion
                             = TARGET_ZOTERO_VERSIONS[n]
              /\ \A i \in DOMAIN last.entry[1].releases :
                    LET rel == last.entry[1].releases[i]
                        rs == cache[Repo].checked_releases
                    IN  /\ rel.targetZoteroVersion \in Range(TARGET_ZOTERO_VERSIONS)
                        /\ \E k \in CompatibleEntries(cache[Repo], rel.targetZoteroVersion) :
                              /\ rs[k].tag = rel.tagName
                              /\ rs[k].published_at = rel.releaseDate
                              /\ rs[k].xpi_download_url = rel.xpiDownloadUrl.github
                              /\ \A n \in CompatibleEntries(cache[Repo],
                                                            rel.targetZoteroVersion) :
                                    ~StrLess(rs[k].published_at, rs[n].published_at)

\* an entry with a release for 7 and another one for 6, from a cache that
\* also holds a failed entry published after both
C22_Witness ==
    /\ last.op = "process_repo"
    /\ last.entry # <<>>
    /\ Len(last.entry[1].releases) = 2
    /\ last.entry[1].releases[1].tagName # last.entry[1].releases[2].tagName
    /\ \E i \in DOMAIN cache[Repo].checked_releases :
          /\ ~cache[Repo].checked_releases[i].parse_success
          /\ StrLess(last.entry[1].releases[1].releaseDate,
                     cache[Repo].checked_releases[i].published_at)


\* an issue was reported for the release of this tag
Reported(issues, tag) == \E i \in DOMAIN issues : issues[i].tagName = tag

\* what the XPI of a release resolved by AddonScraper parses to
ParsedFor(l, release) ==
    XPIParser_parse_sources([json |-> l.json, rdf |-> <<>>],
        IF release.targetZoteroVersion = <<"6">> THEN <<"json", "rdf">>
        ELSE <<"rdf", "json">>)

NoBounds(min_version, max_version) ==
    /\ (~Truthy(min_version) \/ min_version = <<"*">>)
    /\ (~Truthy(max_version) \/ max_version = <<"*">>)

\* C23: whenever a release fails to parse, yields no version bounds or fails
\* its compatibility check, an issue is reported for it: in AddonScraper for
\* every release of the plugin that has an XPI, and in the cache-based
\* pipeline for every release that ReleaseCacheBuilder cached as failed to
\* download or parse, cached without bounds, or cached with bounds that no
\* target version meets.
C23_FailuresAreReported ==
    /\ last.op = "scrape_addon" =>
          \A i \in DOMAIN last.releases :
             (/\ last.release_ok
              /\ AddonScraper_find_xpi_asset(
                    ReleaseData(last.releases[i].tagName).assets) # <<>>
              /\ \/ ~last.downloaded
                 \/ ParsedFor(last, last.releases[i]) = <<>>
                 \/ ~check_compatible(ParsedFor(last, last.releases[i])[1],
                                      last.releases[i].targetZoteroVersion
                                         \o <<".", "*">>)
                 \/ NoBounds(last.processed[i].minZoteroVersion,
                             last.processed[i].maxZoteroVersion))
             => \E k \in DOMAIN last.issues :
                   /\ last.issues[k].tagName = last.releases[i].tagName
                   /\ last.issues[k].targetZoteroVersion
                      = last.releases[i].targetZoteroVersion
    /\ last.op = "cache_pipeline" =>
          \A i \in DOMAIN Releases(cache) :
             (\/ /\ ~Releases(cache)[i].parse_success
                 /\ Releases(cache)[i].parse_error
                    \in {<<"Download failed">>, <<"Parse failed or no addon ID">>}
              \/ /\ Releases(cache)[i].parse_success
                 /\ \/ NoBounds(Releases(cache)[i].min_zotero_version,
                                Releases(cache)[i].max_zotero_version)
                    \/ \A v \in Range(TARGET_ZOTERO_VERSIONS) :
                          ~is_compatible_with(Releases(cache)[i], v))
             => Reported(last.issues, Releases(cache)[i].tag)

\* C24: XPIParser.parse raises XPIParseError exactly when the path does not
\* exist, whatever the manifest parsers do; on an existing path it returns a
\* detail exactly when a source named in priority_sources yielded details
\* with a non-empty id (a manifest of a source that is not named counts for
\* nothing), and the detail it returns has a non-empty id.
C24_DetailIffListedId ==
    last.op = "parse_path" =>
        /\ last.raised = ~last.exists
        /\ last.raised => last.ret = <<>>
        /\ last.exists =>
              /\ (last.ret # <<>>) =
                    (\E i \in DOMAIN last.priority_sources :
                        /\ last.priority_sources[i] \in {"json", "rdf"}
                        /\ last.manifests[last.priority_sources[i]] # <<>>
                        /\ Truthy(Get(last.manifests[last.priority_sources[i]][1], "id")))
              /\ last.ret # <<>> => Truthy(last.ret[1].id)

\* the only manifest with an id is a manifest.json and the list names rdf
\* alone: nothing is returned and nothing is raised
C24_Witness ==
    /\ last.op = "parse_path"
    /\ last.exists
    /\ last.priority_sources = <<"rdf">>
    /\ last.manifests.json # <<>>
    /\ Truthy(last.manifests.json[1].id)
    /\ last.manifests.rdf = <<>>
    /\ ~last.raised
    /\ last.ret = <<>>


\* every repository in memory that is not dirty equals what its durable
\* record loads as
CleanMatchesRecord(c, d, files) ==
    \A repo \in DOMAIN c : repo \notin d => c[repo] = load_repo_file(files, repo)

\* C25: under any sequence of get_repo_cache, add_release, sync_with_github,
\* update_repo_checked_time and save, a repository whose in-memory cache
\* differs from what its durable record holds is in the dirty set; save()
\* changes the records of dirty repositories only, writes the in-memory
\* cache of each one whose write succeeds and, when all succeed, leaves the
\* dirty set empty and every record equal to its in-memory cache; a
\* repository whose record is missing or unreadable loads as an empty cache,
\* and every operation on one repository leaves the others' caches as they
\* were.
C25_DirtyTracksUnsavedChanges ==
    [][/\ CleanMatchesRecord(cache', dirty', last'.files)
       /\ last'.op = "save" =>
             /\ \A repo \in DOMAIN last'.files :
                   repo \notin dirty =>
                      /\ repo \in DOMAIN last.files
                      /\ last'.files[repo] = last.files[repo]
             /\ \A repo \in dirty \ last'.failing :
                   last'.files[repo] = RepoCache_to_dict(cache[repo])
             /\ dirty' = last'.failing
             /\ last'.failing = {} =>
                   \A repo \in DOMAIN cache :
                      /\ repo \in DOMAIN last'.files =>
                            RepoCache_from_dict(last'.files[repo]) = cache[repo]
                      /\ repo \notin DOMAIN last'.files => cache[repo] = RepoCache
       /\ last'.op # "save" =>
             /\ last'.files = last.files
             /\ \A repo \in DOMAIN cache :
                   repo # last'.repo =>
                      /\ repo \in DOMAIN cache'
                      /\ cache'[repo] = cache[repo]
             /\ DOMAIN cache' = DOMAIN cache \cup {last'.repo}
             /\ (/\ last'.op = "get_repo_cache"
                 /\ last'.repo \notin DOMAIN cache
                 /\ \/ last'.repo \notin DOMAIN last.files
                    \/ last.files[last'.repo] = Unreadable)
                => cache'[last'.repo] = RepoCache
    ]_vars

\* a save with both repositories dirty, o/b over a record that could not be
\* read: both are written and the dirty set is empty
C25_Witness ==
    /\ last.op = "save"
    /\ last.failing = {}
    /\ dirty = {}
    /\ DOMAIN cache = {Repo, Repo2}
    /\ DOMAIN last.files = {Repo, Repo2}
    /\ Len(cache[Repo].checked_releases) = 2
    /\ Len(cache[Repo2].checked_releases) = 1
    /\ last.files[Repo2] = RepoCache_to_dict(cache[Repo2])
    /\ last.files[Repo] = RepoCache_to_dict(cache[Repo])


\* C26: for every pair of bounds and each target T of 6 and 7,
\* is_compatible_with(T) on a parsed entry with these bounds gives the answer
\* of check_compatible(T.*) on the detail with the same bounds.
C26_CachedCheckAgreesWithDetail ==
    last.op = "is_compatible_with" =>
        /\ last.entry.parse_success
        /\ last.entry.min_zotero_version = detail.min_version
        /\ last.entry.max_zotero_version = detail.max_version
        /\ last.ret = last.check_compatible


\* the four (location, app) pairs in the order they are probed
ProbedPairs ==
    << <<"applications", "zotero">>, <<"applications", "gecko">>,
       <<"browser_specific_settings", "zotero">>,
       <<"browser_specific_settings", "gecko">> >>

\* the pair is in the manifest and its id is not empty
SuppliesId(manifest, pair) ==
    /\ pair[1] \in DOMAIN manifest
    /\ pair[2] \in DOMAIN manifest[pair[1]]
    /\ Truthy(Get(manifest[pair[1]][pair[2]], "id"))

\* C27: extract_details returns id, min_version, max_version and update_url
\* from the first of the four pairs, in the order probed, that has a
\* non-empty id; so the extracted id is non-empty whenever one of the four
\* pairs has one.
C27_FirstPairWithIdIsExtracted ==
    last.op = "extract_details" =>
        \A i \in DOMAIN ProbedPairs :
            ( /\ SuppliesId(last.manifest, ProbedPairs[i])
              /\ \A j \in 1..(i - 1) : ~SuppliesId(last.manifest, ProbedPairs[j]) )
            => /\ Truthy(last.ret.id)
               /\ last.ret = with_app_settings(
                                last.ret,
                                last.manifest[ProbedPairs[i][1]][ProbedPairs[i][2]])


\* C28: when the main Description of an install.rdf carries an updateURL,
\* the details RdfManifestParser.extract_details returns have update_url
\* equal to it, as id, name, version and description are taken from it.
C28_RdfUpdateUrlIsExtracted ==
    (last.op = "parse" /\ last.rdf # <<>> /\ last.manifests.rdf # <<>>) =>
        \A d \in Range(last.rdf[1].description) :
            /\ \A k \in {"id", "name", "version", "description"} :
                  k \in DOMAIN d => last.manifests.rdf[1][k] = d[k]
            /\ Truthy(Get(d, "updateURL")) =>
                  last.manifests.rdf[1].update_url = d.updateURL


\* the major version of a version string is 6 or below
MajorAtMost6(version) ==
    /\ IsInt(Head(split(version, ".")))
    /\ IntOf(Head(split(version, "."))) <= 6

\* C29: the max_version that _update_version_from_target folds into the
\* details is, reading * as 999, never greater than the declared maxVersion
\* read the same way, and a declared maxVersion of major version 6 or below
\* is folded as declared.
C29_ClampOnlyLowers ==
    (/\ last.op = "update_version_from_target"
     /\ last.ret.max_version # last.details.max_version)
        => /\ compare_versions(
                  replace(last.ret.max_version, "*", <<"9", "9", "9">>),
                  replace(last.version_info.maxVersion, "*", <<"9", "9", "9">>)) <= 0
           /\ MajorAtMost6(last.version_info.maxVersion)
                 => last.ret.max_version = last.version_info.maxVersion


\* C30: for version strings a, b and c without wildcard segments,
\* compare_versions(a, b) <= 0 and compare_versions(b, c) <= 0 imply
\* compare_versions(a, c) <= 0.
C30_CompareIsTransitive ==
    (/\ last.op = "compare_three"
     /\ WildcardFree(last.a) /\ WildcardFree(last.b) /\ WildcardFree(last.c)
     /\ last.ab <= 0
     /\ last.bc <= 0)
        => last.ac <= 0

====
